---------------------------- MODULE Spec2Model ----------------------------
(***************************************************************************)
(* A model of skysolve-next: the LX200 protocol server                     *)
(* (skysolve_next/publish/lx200_server.py), the solve orchestration loop   *)
(* (skysolve_next/workers/solve_worker.py), the astrometry solver adapter  *)
(* (skysolve_next/solver/astrometry_solver.py) and the POST /solve         *)
(* endpoint (skysolve_next/web/app.py).                                    *)
(*                                                                         *)
(* Conventions.  Text is a sequence of one-character strings; the two      *)
(* non-ASCII characters that occur are written "NBSP" (U+00A0) and "FFFD"  *)
(* (U+FFFD), and the two bytes of the UTF-8 encoding of U+00A0 are written *)
(* "C2" and "A0".  A Python value that may be None, a float or the string  *)
(* "-" is a record [t, v].  Angles are fixed-point numbers, UnitsPerDeg    *)
(* units to the degree; a confidence is counted in hundredths; time is     *)
(* counted in whole ticks of one second.                                   *)
(***************************************************************************)
EXTENDS Integers, Sequences, FiniteSets, TLC

VARIABLES
    \* ---- LX200Server, shared by every specification that publishes
    _last,        \* LX200Server._last: [set |-> FALSE] is None
    lockHolder,   \* LX200Server._lock: "free" or the thread that holds it
    pub,          \* the thread inside publish(): [pc, res]
    h,            \* one record per connection handler thread (_client_loop)
    \* ---- one connection's _client_loop (framing and dispatch)
    stream,       \* the bytes the peer sends on the connection
    pos,          \* how many of them recv has returned so far
    buf,          \* _client_loop's buf
    parsed,       \* history: the cmd of every _handle_command call, in order
    replies,      \* history: the bytes handed to sendall, in order
    wall,         \* the wall clock read by time.strftime
    exch,         \* history: the raw text, cmd and reply of the latest command served
    conn,         \* the connection: open or closed, and what recv did last
    \* ---- the orchestrator loop of solve_worker.main
    settings,     \* the in-memory settings the cycle reads
    last_ra,      \* main's last_ra
    last_dec,     \* main's last_dec
    conf_val,     \* main's local conf_val; [t |-> "unbound"] before its first assignment
    cyc,          \* history: what the latest loop iteration did
    now,          \* time.time(), in ticks
    cacheTime,    \* history: the tick at which last_ra/last_dec were last written
    status,       \* the status artifact worker_status.json
    onstep,       \* whether main created an OnStepClient before its loop
    running,      \* whether main is still in its while True loop
    last_error,   \* camera.last_error: "" is None
    \* ---- POST /solve of web/app.py
    LAST_SOLVE,   \* app.LAST_SOLVE
    webCall,      \* history: what the latest POST /solve did
    \* ---- the coordinate formatters on their own
    angle,        \* the coordinate handed to the formatters
    fmt,          \* history: what the formatters returned for it
    \* ---- the OnStep mount client on its own
    mount,        \* history: the latest call of the client and what it sent
    \* ---- the persisted configuration and the two processes that reload it
    cfgFile,      \* settings.json: its mode and its modification time
    fsClock,      \* the file system's timestamp clock, in ticks
    workerCfg,    \* the worker's settings: mode, _last_mtime; history: the branch run
    webCfg,       \* the web process's settings: mode, _last_mtime; history: its latest answer
    \* ---- AstrometrySolver.solve called on its own
    solveCall,    \* history: the latest call, what it ran and logged, how it ended
    classify,     \* history: the latest call of _is_solve_successful
    \* ---- the parse loop of _execute_solve_field on its own
    parse,        \* the output lines read so far and the values parsed from them
    \* ---- worker_status.json under its two writers and its reader
    sfile,        \* the file: absent, empty, whole or corrupt; its record and size
    writer,       \* each write_status caller: where it is, what it read and writes
    reader,       \* history: what the latest GET /worker-status found
    \* ---- the settings tree of the web process and settings.json
    webSettings,  \* the tree in memory, the file, and the latest POST and GET /settings
    \* ---- the accept loop of the LX200 server and the threads it starts
    acceptor,     \* where _accept_loop is, what it logged, each connection's thread
    \* ---- one LogCapture
    capture,      \* its entries and listeners, what each listener was called with
    \* ---- the directory of the image across solve calls
    workdir,      \* which call wrote the .xy file there, and what the latest call read
    \* ---- the publishes of the LX200 server as its handlers see them
    watch,        \* history: publishes begun, stored and returned; each handler's reads
    \* ---- one connection from its bytes to its responses, publish() alongside
    link          \* the bytes, buf, the commands cut, handled and answered

serverVars == <<_last, lockHolder, pub, h>>
connVars   == <<stream, pos, buf, parsed, replies, wall, exch, conn>>
orchVars   ==
    <<settings, last_ra, last_dec, conf_val, cyc, cacheTime, status, last_error,
      onstep, running>>
webVars    == <<LAST_SOLVE, webCall>>
fmtVars    == <<angle, fmt>>
mountVars  == <<mount>>
cfgVars    == <<cfgFile, fsClock, workerCfg, webCfg>>
solverVars == <<solveCall, classify, parse>>
statusVars == <<sfile, writer, reader>>
sideVars   == <<webSettings, acceptor, capture, workdir, watch, link>>
vars       ==
    <<serverVars, connVars, orchVars, webVars, fmtVars, mountVars, cfgVars,
      solverVars, statusVars, sideVars, now>>

---------------------------------------------------------------------------
(* Python values                                                           *)

\* None
None == [t |-> "none", v |-> 0]
\* a float (an angle in fixed-point units, or a confidence in hundredths)
Num(n) == [t |-> "num", v |-> n]
\* the string "-" that stands for an unavailable confidence
Dash == [t |-> "str", v |-> 0]
\* a local variable that has not been assigned yet
Unbound == [t |-> "unbound", v |-> 0]

\* ra_deg, dec_deg: float are modelled in units of 1/UnitsPerDeg degree
UnitsPerDeg == 10000

\* core.models.SolveResult
SolveResult(ra, dec, roll, scale, conf) ==
    [ra_deg |-> ra, dec_deg |-> dec, roll_deg |-> roll,
     plate_scale_arcsec_px |-> scale, confidence |-> conf]

\* SolveResult(ra_deg=None, dec_deg=None, roll_deg=None, plate_scale_arcsec_px=None, confidence=None)
EmptyResult == SolveResult(None, None, None, None, None)

\* the zero result _execute_solve_field returns for a failed phase
ZeroResult == SolveResult(Num(0), Num(0), None, None, Num(0))

\* int(x) of the quotient a / b, b > 0: truncation toward zero
Trunc(a, b) == IF a >= 0 THEN a \div b ELSE -((-a) \div b)

---------------------------------------------------------------------------
(* Floating point.  A Python float is a binary floating-point number; the  *)
(* model keeps the format and its rounding (to nearest, ties to even) but  *)
(* narrows it: SigBits significant bits instead of 53, and no exponent     *)
(* below -FracBits.  A non-negative float is written as its count of       *)
(* units of 2^-FracBits.                                                   *)

\* the exponent of the smallest unit
FracBits == 17
\* the width of the significand
SigBits == 20
\* 1.0
FloatOne == 2^FracBits

\* the number of binary digits of n
RECURSIVE BitLen(_)
BitLen(n) == IF n = 0 THEN 0 ELSE 1 + BitLen(n \div 2)

\* the spacing of the floats around n
FloatStep(n) == IF BitLen(n) <= SigBits THEN 1 ELSE 2^(BitLen(n) - SigBits)

\* the float nearest to q + r/den, 0 <= r < den: the rounding every
\* floating-point operation ends with
RoundFloat(q, r, den) ==
    LET step == FloatStep(q)
        k == q \div step
        twice == 2 * ((q % step) * den + r)
    IN  IF twice > step * den THEN (k + 1) * step
        ELSE IF twice = step * den /\ k % 2 = 1 THEN (k + 1) * step
        ELSE k * step

\* float("d.dddd"): the float nearest to u / UnitsPerDeg, u >= 0
ToFloat(u) ==
    LET ip == u \div UnitsPerDeg
        fp == u % UnitsPerDeg
    IN  RoundFloat(ip * FloatOne + (fp * FloatOne) \div UnitsPerDeg,
                   (fp * FloatOne) % UnitsPerDeg, UnitsPerDeg)

\* x * 60
Mul60(n) == RoundFloat(n * 60, 0, 1)

---------------------------------------------------------------------------
(* Text                                                                    *)

LowerLetters == <<"a","b","c","d","e","f","g","h","i","j","k","l","m",
                  "n","o","p","q","r","s","t","u","v","w","x","y","z">>
UpperLetters == <<"A","B","C","D","E","F","G","H","I","J","K","L","M",
                  "N","O","P","Q","R","S","T","U","V","W","X","Y","Z">>

\* str.upper() of one character
UpperChar(ch) ==
    IF \E i \in 1..Len(LowerLetters) : LowerLetters[i] = ch
    THEN UpperLetters[CHOOSE i \in 1..Len(LowerLetters) : LowerLetters[i] = ch]
    ELSE ch

\* str.upper()
Upper(s) == [i \in 1..Len(s) |-> UpperChar(s[i])]

\* str.startswith(p)
StartsWith(s, p) == Len(s) >= Len(p) /\ SubSeq(s, 1, Len(p)) = p

\* the characters str.strip() removes (those for which str.isspace() holds)
Whitespace == {" ", "\t", "\n", "\r", "NBSP"}

RECURSIVE LStrip(_)
LStrip(s) ==
    IF s # <<>> /\ Head(s) \in Whitespace THEN LStrip(Tail(s)) ELSE s

RECURSIVE RStrip(_)
RStrip(s) ==
    IF s # <<>> /\ s[Len(s)] \in Whitespace
    THEN RStrip(SubSeq(s, 1, Len(s) - 1))
    ELSE s

\* str.strip()
Strip(s) == RStrip(LStrip(s))

\* str.find(ch), with 0 for Python's -1 and positions counted from 1
Find(s, ch) ==
    IF \E i \in 1..Len(s) : s[i] = ch
    THEN CHOOSE i \in 1..Len(s) : s[i] = ch /\ \A j \in 1..(i - 1) : s[j] # ch
    ELSE 0

\* bytes.decode(errors="replace") of one chunk: UTF-8, every byte that is not
\* part of a complete character within the chunk becomes U+FFFD
RECURSIVE Decode(_)
Decode(bytes) ==
    IF bytes = <<>> THEN <<>>
    ELSE IF Head(bytes) = "C2"
         THEN IF Len(bytes) >= 2 /\ bytes[2] = "A0"
              THEN <<"NBSP">> \o Decode(Tail(Tail(bytes)))
              ELSE <<"FFFD">> \o Decode(Tail(bytes))
    ELSE IF Head(bytes) = "A0"
         THEN <<"FFFD">> \o Decode(Tail(bytes))
    ELSE <<Head(bytes)>> \o Decode(Tail(bytes))

DigitChars == <<"0","1","2","3","4","5","6","7","8","9">>

\* str(n) of a natural number
RECURSIVE Digits(_)
Digits(n) ==
    IF n < 10 THEN <<DigitChars[n + 1]>>
    ELSE Digits(n \div 10) \o <<DigitChars[(n % 10) + 1]>>

\* f"{n:02d}"
Pad2(n) ==
    IF n < 0 THEN <<"-">> \o Digits(-n)
    ELSE IF n < 10 THEN <<"0">> \o Digits(n)
    ELSE Digits(n)

---------------------------------------------------------------------------
(* LX200Server: coordinate formatting and command dispatch                 *)

\* f"{h:02d}:{m:02d}:{s:02d}"
RaText(f) == Pad2(f.h) \o <<":">> \o Pad2(f.m) \o <<":">> \o Pad2(f.s)

\* f"{sign}{d:02d}*{m:02d}:{s:02d}"
DecText(sign, f) == <<sign>> \o Pad2(f.d) \o <<"*">> \o Pad2(f.m) \o <<":">> \o Pad2(f.s)

\* the arithmetic of LX200Server._format_ra on the float x:
\* hours = ra_deg / 15.0; h = int(hours); m = int((hours - h) * 60);
\* s = int((((hours - h) * 60) - m) * 60)
RaFields(x) ==
    LET hours == RoundFloat(x \div 15, x % 15, 15)
        hh == Trunc(hours, FloatOne)
        m60 == Mul60(hours - hh * FloatOne)
        m == Trunc(m60, FloatOne)
        s == Trunc(Mul60(m60 - m * FloatOne), FloatOne)
    IN  [h |-> hh, m |-> m, s |-> s]

\* the arithmetic of LX200Server._format_dec on the float v = abs(dec_deg)
DecFields(v) ==
    LET d == Trunc(v, FloatOne)
        m60 == Mul60(v - d * FloatOne)
        m == Trunc(m60, FloatOne)
        s == Trunc(Mul60(m60 - m * FloatOne), FloatOne)
    IN  [d |-> d, m |-> m, s |-> s]

\* LX200Server._format_ra of the float written ra / UnitsPerDeg
FormatRa(ra) == RaText(RaFields(ToFloat(ra)))

\* LX200Server._format_dec of the float written dec / UnitsPerDeg
FormatDec(dec) ==
    LET sign == IF dec >= 0 THEN "+" ELSE "-"
        v == ToFloat(IF dec >= 0 THEN dec ELSE -dec)
    IN  DecText(sign, DecFields(v))

\* OnStepClient._format_ra of mounts/onstep/lx200.py
OnStepFormatRa(ra) ==
    LET hours == RoundFloat(ToFloat(ra) \div 15, ToFloat(ra) % 15, 15)
        hh == Trunc(hours, FloatOne)
        m == Trunc(Mul60(hours - hh * FloatOne), FloatOne)
        s == Trunc(Mul60(Mul60(hours - hh * FloatOne) - m * FloatOne), FloatOne)
    IN  Pad2(hh) \o <<":">> \o Pad2(m) \o <<":">> \o Pad2(s)

\* OnStepClient._format_dec of mounts/onstep/lx200.py
OnStepFormatDec(dec) ==
    LET sign == IF dec >= 0 THEN "+" ELSE "-"
        v == ToFloat(IF dec >= 0 THEN dec ELSE -dec)
        d == Trunc(v, FloatOne)
        m == Trunc(Mul60(v - d * FloatOne), FloatOne)
        s == Trunc(Mul60(Mul60(v - d * FloatOne) - m * FloatOne), FloatOne)
    IN  <<sign>> \o Pad2(d) \o <<"*">> \o Pad2(m) \o <<":">> \o Pad2(s)

\* time.strftime("%m/%d/%y")
StrfDate(w) == Pad2(w.mo) \o <<"/">> \o Pad2(w.d) \o <<"/">> \o Pad2(w.y)

\* time.strftime("%H:%M:%S")
StrfTime(w) == Pad2(w.H) \o <<":">> \o Pad2(w.M) \o <<":">> \o Pad2(w.S)

\* the first test of _handle_command: :GR# or :RS#, in any letter case
IsRaQuery(cmd) ==
    StartsWith(Upper(cmd), <<":","G","R","#">>) \/ StartsWith(Upper(cmd), <<":","R","S","#">>)

\* :GD# matched in upper case only
IsDecQueryCaseSensitive(cmd) == StartsWith(cmd, <<":","G","D","#">>)

\* the second test of _handle_command: :GD#, in any letter case
IsDecQuery(cmd) == StartsWith(Upper(cmd), <<":","G","D","#">>)

IsCoordQuery(cmd) == IsRaQuery(cmd) \/ IsDecQuery(cmd)

\* the motion test with the lower-case directions forgotten
IsMotionSlewOnly(cmd) == StartsWith(cmd, <<":","M","S","#">>)

\* the SLEW/MOTION test of _handle_command
IsMotion(cmd) ==
    \/ StartsWith(cmd, <<":","M","S","#">>)
    \/ StartsWith(cmd, <<":","M","n","#">>)
    \/ StartsWith(cmd, <<":","M","e","#">>)
    \/ StartsWith(cmd, <<":","M","s","#">>)
    \/ StartsWith(cmd, <<":","M","w","#">>)

\* _handle_command from its third test on: the replies that do not read _last
StaticReply(cmd, w) ==
    IF StartsWith(cmd, <<":","G","V","P","#">>)
        THEN <<"S","k","y","s","o","l","v","e"," ","N","e","x","t","#">>
    ELSE IF StartsWith(cmd, <<":","G","V","N","#">>)
        THEN <<"0",".","1","#">>
    ELSE IF StartsWith(cmd, <<":","G","V","D","#">>) \/ StartsWith(cmd, <<":","G","C","#">>)
        THEN StrfDate(w) \o <<"#">>
    ELSE IF StartsWith(cmd, <<":","G","V","T","#">>) \/ StartsWith(cmd, <<":","G","L","#">>)
        THEN StrfTime(w) \o <<"#">>
    ELSE IF StartsWith(cmd, <<":","U","#">>)
        THEN <<"1">>
    ELSE IF StartsWith(cmd, <<":","S","C">>)
        THEN <<"1">>
    ELSE IF StartsWith(cmd, <<":","S","L">>)
        THEN <<"1">>
    ELSE IF StartsWith(cmd, <<":","S","t">>) \/ StartsWith(cmd, <<":","S","g">>)
        THEN <<"1">>
    ELSE IF IsMotion(cmd)
        THEN <<"0">>
    ELSE <<"#">>

\* the coordinate a query is about: result.ra_deg or result.dec_deg
Coord(cmd, res) == IF IsRaQuery(cmd) THEN res.ra_deg ELSE res.dec_deg

\* ra_val / dec_val of _handle_command:
\*   (self._last.ra_deg if self._last and getattr(self._last, "ra_deg", None) is not None else 0.0)
\* Python reads self._last three times: l1 for the truth test, l2 for the
\* getattr test and l3 for the value.
CoordVal(cmd, l1, l2, l3) ==
    IF l1.set /\ Coord(cmd, l2.r) # None THEN Coord(cmd, l3.r) ELSE Num(0)

\* _format_ra(ra_val) + "#" or _format_dec(dec_val) + "#"; val is a float here
CoordReply(cmd, val) ==
    (IF IsRaQuery(cmd) THEN FormatRa(val.v) ELSE FormatDec(val.v)) \o <<"#">>

\* ra_deg / 15.0 and abs(dec_deg) raise TypeError on None
FormatRaises(val) == val.t # "num"

---------------------------------------------------------------------------
(* Values the specifications draw from                                     *)

\* the end-to-end example: ra_deg = 296.964, dec_deg = 42.7365, no confidence line
ExampleResult == SolveResult(Num(2969640), Num(427365), None, None, Dash)

\* Tetra3Solver.solve: ra_deg=180.0, dec_deg=45.0, roll_deg=0.0,
\* plate_scale_arcsec_px=12.3 (in tenths), confidence=0.95
Tetra3Result ==
    SolveResult(Num(180 * UnitsPerDeg), Num(45 * UnitsPerDeg), Num(0), Num(123), Num(95))

\* self._last = None
NoLast == [set |-> FALSE, r |-> EmptyResult]
\* self._last = result
SomeLast(r) == [set |-> TRUE, r |-> r]

\* two readings of the wall clock
WallClocks ==
    { [mo |-> 11, d |-> 3, y |-> 26, H |-> 21, M |-> 5, S |-> 9],
      [mo |-> 1, d |-> 12, y |-> 27, H |-> 0, M |-> 0, S |-> 0] }

WallQuiet == [mo |-> 11, d |-> 3, y |-> 26, H |-> 21, M |-> 5, S |-> 9]

---------------------------------------------------------------------------
(* LX200Server under concurrency: handler threads and publish()            *)

\* number of connection handler threads
NConns == 2
Conns == 1..NConns

\* thread identities for the lock: the publishing thread, and no thread
PubThread == 0
Free == -1

\* the results main() hands to publish(): the empty result of align mode or
\* of a raising solver, and a solved result
PublishedResults == {EmptyResult, ExampleResult}

\* the parsed commands the handlers are given
ServerCommands ==
    { <<":","G","R","#">>, <<":","G","D","#">>,
      <<":","M","S","#">>, <<":","M","n","#">>, <<":","M","e","#">>,
      <<":","M","s","#">>, <<":","M","w","#">>,
      <<":","S","C","1","#">>, <<":","C","M","#">> }

\* a handler thread blocked in recv, nothing of the last command kept
IdleHandler ==
    [pc |-> "idle", cmd |-> <<>>, chk |-> NoLast, use |-> NoLast,
     val |-> None, locked |-> TRUE]

\* LX200Server.__init__
ServerInit ==
    /\ _last = NoLast
    /\ lockHolder = Free
    /\ pub = [pc |-> "idle", res |-> EmptyResult]
    /\ h = [c \in Conns |-> IdleHandler]

\* _client_loop hands the next parsed command to _handle_command
HandlerRecv(c, cmd) ==
    /\ h[c].pc = "idle"
    /\ h' = [h EXCEPT ![c] = [IdleHandler EXCEPT
                !.pc = IF IsCoordQuery(cmd) THEN "truth" ELSE "send",
                !.cmd = cmd]]
    /\ UNCHANGED <<_last, lockHolder, pub>>

\* the first read of self._last: "if self._last"
ReadTruth(c) ==
    /\ h[c].pc = "truth"
    /\ h' = [h EXCEPT ![c] =
                IF _last.set
                THEN [@ EXCEPT !.pc = "getattr", !.locked = @ /\ lockHolder = c]
                ELSE [@ EXCEPT !.pc = "send", !.chk = _last, !.val = Num(0),
                               !.locked = @ /\ lockHolder = c]]
    /\ UNCHANGED <<_last, lockHolder, pub>>

\* the second read without its test for None
ReadGetattrNoCheck(c) ==
    /\ h[c].pc = "getattr"
    /\ h' = [h EXCEPT ![c] = [@ EXCEPT !.pc = "use", !.chk = _last,
                                       !.locked = @ /\ lockHolder = c]]
    /\ UNCHANGED <<_last, lockHolder, pub>>

\* the second read: getattr(self._last, "ra_deg", None) is not None
ReadGetattr(c) ==
    /\ h[c].pc = "getattr"
    /\ h' = [h EXCEPT ![c] =
                IF Coord(h[c].cmd, _last.r) # None
                THEN [@ EXCEPT !.pc = "use", !.chk = _last,
                               !.locked = @ /\ lockHolder = c]
                ELSE [@ EXCEPT !.pc = "send", !.chk = _last, !.val = Num(0),
                               !.locked = @ /\ lockHolder = c]]
    /\ UNCHANGED <<_last, lockHolder, pub>>

\* the third read: self._last.ra_deg
ReadUse(c) ==
    /\ h[c].pc = "use"
    /\ h' = [h EXCEPT ![c] = [@ EXCEPT !.pc = "send", !.use = _last,
                                       !.val = Coord(h[c].cmd, _last.r),
                                       !.locked = @ /\ lockHolder = c]]
    /\ UNCHANGED <<_last, lockHolder, pub>>

\* the reply a handler at "send" is about to hand to _send_and_log
HandlerReply(hr) ==
    IF IsCoordQuery(hr.cmd) THEN CoordReply(hr.cmd, hr.val)
    ELSE StaticReply(hr.cmd, WallQuiet)

\* _format_ra / _format_dec and _send_and_log; a TypeError leaves
\* _handle_command, is caught by _client_loop and closes the connection
HandlerSend(c) ==
    /\ h[c].pc = "send"
    /\ h' = [h EXCEPT ![c] =
                IF IsCoordQuery(h[c].cmd) /\ FormatRaises(h[c].val)
                THEN [IdleHandler EXCEPT !.pc = "crashed"]
                ELSE IdleHandler]
    /\ UNCHANGED <<_last, lockHolder, pub>>

\* publish(result): with self._lock
PublishAcquire(r) ==
    /\ pub.pc = "idle"
    /\ lockHolder = Free
    /\ lockHolder' = PubThread
    /\ pub' = [pc |-> "locked", res |-> r]
    /\ UNCHANGED <<_last, h>>

\* a publish that assigns only while nothing was ever published
PublishStoreOnce ==
    /\ pub.pc = "locked"
    /\ _last' = IF _last.set THEN _last ELSE SomeLast(pub.res)
    /\ pub' = [pub EXCEPT !.pc = "stored"]
    /\ UNCHANGED <<lockHolder, h>>

\* publish(result): self._last = result
PublishStore ==
    /\ pub.pc = "locked"
    /\ _last' = SomeLast(pub.res)
    /\ pub' = [pub EXCEPT !.pc = "stored"]
    /\ UNCHANGED <<lockHolder, h>>

\* publish(result): the lock is released on leaving the with block
PublishRelease ==
    /\ pub.pc = "stored"
    /\ lockHolder' = Free
    /\ pub' = [pc |-> "idle", res |-> EmptyResult]
    /\ UNCHANGED <<_last, h>>

---------------------------------------------------------------------------
(* AstrometrySolver                                                        *)

\* the lines of solve-field's standard output the parse loop tells apart:
\* "RA,Dec = (x,y), pixel scale ..." (radec), "Field center: (RA,Dec) =
\* (x, y) deg." (center), "Field center: (RA H:M:S, Dec D:M:S) = ..." (hms),
\* "Confidence: c" (conf) and any other text; ts says that the line starts
\* with a [HH:MM:SS] stamp.  x and y are numerals as solve-field prints them,
\* in units of 1/UnitsPerDeg degree
OutLine(ts, kind, ra, dec, conf) ==
    [ts |-> ts, kind |-> kind, ra |-> ra, dec |-> dec, conf |-> conf]

CoordPairs == {<<2969640, 427365>>, <<2969446, 426890>>}

OutputLines ==
    {OutLine(ts, k, p[1], p[2], 0) :
        ts \in BOOLEAN, k \in {"radec", "center"}, p \in CoordPairs}
    \cup {OutLine(FALSE, "hms", 2969446, 426890, 0), OutLine(FALSE, "other", 0, 0, 0)}
    \cup {OutLine(ts, "conf", 0, 0, 90) : ts \in BOOLEAN}
    \cup {OutLine(FALSE, "conf", 0, 0, 30)}

\* re.sub(r"^\[\d{2}:\d{2}:\d{2}\]\s*", "", line)
StripTimestamp(line) == [line EXCEPT !.ts = FALSE]

\* the values the parse loop starts from
ParseStart == [ra |-> 0, dec |-> 0, conf |-> 0]

\* a parse loop in which a later coordinate line does not replace an
\* earlier one
ParseLineFirstWins(acc, line) ==
    LET line_no_ts == StripTimestamp(line)
        m1 == line_no_ts.kind = "radec"
        m2 == line_no_ts.kind = "center"
        coords == IF (m1 \/ m2) /\ acc.ra = 0 /\ acc.dec = 0
                      THEN [acc EXCEPT !.ra = line_no_ts.ra, !.dec = line_no_ts.dec]
                  ELSE acc
    IN  IF line_no_ts.kind = "conf" /\ ~line_no_ts.ts
            THEN [coords EXCEPT !.conf = line_no_ts.conf]
        ELSE coords

\* one turn of the parse loop of _execute_solve_field: m1 and m2 are the two
\* regular-expression searches, and split()[1] is the confidence only when
\* "Confidence:" is the first word of the stripped line
ParseLine(acc, line) ==
    LET line_no_ts == StripTimestamp(line)
        m1 == line_no_ts.kind = "radec"
        m2 == line_no_ts.kind = "center"
        coords == IF m1 THEN [acc EXCEPT !.ra = line_no_ts.ra, !.dec = line_no_ts.dec]
                  ELSE IF m2 THEN [acc EXCEPT !.ra = line_no_ts.ra, !.dec = line_no_ts.dec]
                  ELSE acc
    IN  IF line_no_ts.kind = "conf" /\ ~line_no_ts.ts
            THEN [coords EXCEPT !.conf = line_no_ts.conf]
        ELSE coords

RECURSIVE ParseFrom(_, _)
ParseFrom(acc, lines) ==
    IF lines = <<>> THEN acc
    ELSE ParseFrom(ParseLine(acc, Head(lines)), Tail(lines))

\* the parse loop over the whole standard output
ParseOutput(lines) == ParseFrom(ParseStart, lines)

\* what one run of solve-field gives _execute_solve_field: how the process
\* ended (exit code 0, another exit code, TimeoutExpired, another exception
\* of subprocess.run) and the lines of its standard output and standard error
ProcOutcome(kind, out, err) == [kind |-> kind, out |-> out, err |-> err]

ProcOutcomes ==
    { ProcOutcome("nonzero", <<>>, <<"stderr">>),
      ProcOutcome("timeout", <<>>, <<>>),
      ProcOutcome("exception", <<>>, <<>>),
      ProcOutcome("ok", <<OutLine(FALSE, "other", 0, 0, 0)>>, <<>>),
      ProcOutcome("ok", <<OutLine(FALSE, "radec", 2969640, 427365, 0)>>, <<>>),
      ProcOutcome("ok", <<OutLine(FALSE, "radec", 2969640, 427365, 0),
                          OutLine(FALSE, "conf", 0, 0, 30)>>, <<>>),
      ProcOutcome("ok", <<OutLine(TRUE, "radec", 2969640, 427365, 0),
                          OutLine(TRUE, "conf", 0, 0, 90)>>, <<"stderr">>) }

\* AstrometrySolver._execute_solve_field
ExecuteSolveField(p) ==
    IF p.kind # "ok" THEN ZeroResult
    ELSE LET parsed_out == ParseOutput(p.out)
         IN  SolveResult(Num(parsed_out.ra), Num(parsed_out.dec), None, None,
                         IF parsed_out.conf = 0 THEN Dash ELSE Num(parsed_out.conf))

\* a success test that trusts the marker file for any coordinates
IsSolveSuccessfulByMarker(ra_deg, dec_deg, solved_exists) ==
    solved_exists /\ ra_deg # None /\ dec_deg # None

\* AstrometrySolver._is_solve_successful
IsSolveSuccessful(ra_deg, dec_deg, solved_exists) ==
    LET coords_valid == ra_deg # None /\ dec_deg # None
                        /\ ra_deg # Num(0) /\ dec_deg # Num(0)
    IN  solved_exists /\ coords_valid

\* the environment of one solve call of the worker or the web application:
\* whether image_path names a file, the two runs of solve-field, and which
\* files exist after Phase 1; neither caller passes enable_fallback
SolverEnvs ==
    [image : BOOLEAN, p1 : ProcOutcomes, solved : BOOLEAN, xy : BOOLEAN,
     p2 : ProcOutcomes, fallback : {TRUE}]

\* every call of solve: the environment, the hints (None where not given),
\* whether a log sink is given, enable_fallback, and whether the marker file
\* exists after Phase 2
HintValues == {None, Num(2969640)}

SolveCalls ==
    [image : BOOLEAN, p1 : ProcOutcomes, solved : BOOLEAN, xy : BOOLEAN,
     p2 : ProcOutcomes, fallback : BOOLEAN, ra_hint : HintValues,
     dec_hint : HintValues, log : BOOLEAN, solved2 : BOOLEAN]

\* a solve that answers a bad image_path with the zero result
AstrometrySolveDefaults(e) ==
    IF ~e.image THEN [raised |-> FALSE, res |-> ZeroResult, phases |-> 0]
    ELSE [raised |-> FALSE, res |-> ExecuteSolveField(e.p1), phases |-> 1]

\* a solve that retries whether or not Phase 1 left the xy file
AstrometrySolveAlwaysRetries(e) ==
    IF ~e.image THEN [raised |-> TRUE, res |-> EmptyResult, phases |-> 0]
    ELSE LET phase1_result == ExecuteSolveField(e.p1)
         IN  IF IsSolveSuccessful(phase1_result.ra_deg, phase1_result.dec_deg, e.solved)
                 THEN [raised |-> FALSE, res |-> phase1_result, phases |-> 1]
             ELSE IF ~e.fallback
                 THEN [raised |-> FALSE, res |-> phase1_result, phases |-> 1]
             ELSE [raised |-> FALSE, res |-> ExecuteSolveField(e.p2), phases |-> 2]

\* AstrometrySolver.solve: raises ValueError, or returns the result of
\* Phase 1 or of Phase 2; phases counts the runs of solve-field
AstrometrySolve(e) ==
    IF ~e.image THEN [raised |-> TRUE, res |-> EmptyResult, phases |-> 0]
    ELSE LET phase1_result == ExecuteSolveField(e.p1)
         IN  IF IsSolveSuccessful(phase1_result.ra_deg, phase1_result.dec_deg, e.solved)
                 THEN [raised |-> FALSE, res |-> phase1_result, phases |-> 1]
             ELSE IF ~e.fallback
                 THEN [raised |-> FALSE, res |-> phase1_result, phases |-> 1]
             ELSE IF ~e.xy
                 THEN [raised |-> FALSE, res |-> phase1_result, phases |-> 1]
             ELSE [raised |-> FALSE, res |-> ExecuteSolveField(e.p2), phases |-> 2]

\* AstrometrySolver._build_solve_command: the input file and the optional
\* flags of the command line (the fixed flags are left out)
HintFlags == {"--ra", "--dec", "--radius"}

BuildSolveCommand(input_path, ra_hint, dec_hint, keep_xy) ==
    [input |-> input_path,
     flags |-> (IF ra_hint # None /\ dec_hint # None THEN HintFlags ELSE {})
               \cup (IF keep_xy THEN {"--keep-xylist"} ELSE {})]

\* a solve whose retry carries the hints of the call
SolveCommandsKeepHints(c) ==
    IF AstrometrySolve(c).phases = 0 THEN <<>>
    ELSE IF AstrometrySolve(c).phases = 1
        THEN <<BuildSolveCommand("image", c.ra_hint, c.dec_hint, TRUE)>>
    ELSE <<BuildSolveCommand("image", c.ra_hint, c.dec_hint, TRUE),
           BuildSolveCommand("xy", c.ra_hint, c.dec_hint, FALSE)>>

\* the command lines one call of solve runs, in order
SolveCommands(c) ==
    IF AstrometrySolve(c).phases = 0 THEN <<>>
    ELSE IF AstrometrySolve(c).phases = 1
        THEN <<BuildSolveCommand("image", c.ra_hint, c.dec_hint, TRUE)>>
    ELSE <<BuildSolveCommand("image", c.ra_hint, c.dec_hint, TRUE),
           BuildSolveCommand("xy", None, None, FALSE)>>

\* a message handed to _log: its level, its text, and the phase or the line
\* number it is about
LogMsg(level, msg, n) == [level |-> level, msg |-> msg, n |-> n]

\* the messages of _execute_solve_field for one run of solve-field
ExecuteMessages(p, phase) ==
    <<LogMsg("INFO", "command", phase)>> \o
    (IF p.kind = "timeout" THEN <<LogMsg("ERROR", "timed out", phase)>>
     ELSE IF p.kind = "exception"
         THEN <<LogMsg("ERROR", "failed with exception", phase)>>
     ELSE [i \in 1..Len(p.out) |-> LogMsg("DEBUG", "stdout", i)]
          \o [i \in 1..Len(p.err) |-> LogMsg("ERROR", "stderr", i)]
          \o (IF p.kind = "nonzero"
                  THEN <<LogMsg("ERROR", "failed with return code", phase)>>
              ELSE <<LogMsg("INFO", "completed", phase)>>))

\* the messages of Phase 2 and after, once Phase 1 has failed
FallbackMessages(c) ==
    IF ~c.fallback THEN <<LogMsg("ERROR", "Fallback disabled", 1)>>
    ELSE <<LogMsg("INFO", "Phase 2: Retrying without hints", 2)>> \o
         (IF ~c.xy
              THEN <<LogMsg("ERROR", "XY file not found", 2),
                     LogMsg("ERROR", "Solve failed - no fallback available", 2)>>
          ELSE <<LogMsg("INFO", "Using xy file", 2)>>
               \o ExecuteMessages(c.p2, 2)
               \o (IF IsSolveSuccessful(ExecuteSolveField(c.p2).ra_deg,
                                        ExecuteSolveField(c.p2).dec_deg, c.solved2)
                       THEN <<LogMsg("INFO", "Phase 2 succeeded", 2)>>
                   ELSE <<LogMsg("WARNING", "Phase 2 completed but was unsuccessful", 2)>>))

\* the messages one call of solve hands to _log, in order
SolveMessages(c) ==
    IF ~c.image THEN <<LogMsg("ERROR", "Invalid image path", 0)>>
    ELSE <<IF c.ra_hint # None /\ c.dec_hint # None
               THEN LogMsg("INFO", "Phase 1: Solving image with hints", 1)
           ELSE LogMsg("INFO", "Phase 1: Solving image without hints", 1)>>
         \o ExecuteMessages(c.p1, 1)
         \o (IF IsSolveSuccessful(ExecuteSolveField(c.p1).ra_deg,
                                  ExecuteSolveField(c.p1).dec_deg, c.solved)
                 THEN <<LogMsg("INFO", "Phase 1 succeeded", 1)>>
             ELSE <<LogMsg("WARNING", "Phase 1 failed or returned invalid coordinates", 1)>>
                  \o FallbackMessages(c))

\* what the log sink and the component logger have received
NoLogs == [sink |-> <<>>, logger |-> <<>>]

\* a _log that keeps the lines of the process away from the sink
LogWithoutProcessLines(logs, m, log, t) ==
    [sink   |-> IF log /\ m.level # "DEBUG"
                    THEN Append(logs.sink, [timestamp |-> t, level |-> m.level,
                                            msg |-> m.msg, n |-> m.n])
                ELSE logs.sink,
     logger |-> Append(logs.logger, m)]

\* solve._log at time t: the sink, when one is given, gets the message with
\* its level and a timestamp; the logger's method for the level gets it too
Log(logs, m, log, t) ==
    [sink   |-> IF log
                    THEN Append(logs.sink, [timestamp |-> t, level |-> m.level,
                                            msg |-> m.msg, n |-> m.n])
                ELSE logs.sink,
     logger |-> Append(logs.logger, m)]

RECURSIVE LogAll(_, _, _, _)
LogAll(logs, msgs, log, t) ==
    IF msgs = <<>> THEN logs
    ELSE LogAll(Log(logs, Head(msgs), log, t), Tail(msgs), log, t)

\* what a call of AstrometrySolver.solve can give its caller
AstrometryReturns == {[raised |-> AstrometrySolve(e).raised, res |-> AstrometrySolve(e).res] : e \in SolverEnvs}

\* Tetra3Solver.solve(image): it takes no hint arguments, so a call with
\* ra_hint=... raises TypeError
Tetra3Solve(hinted) ==
    IF hinted THEN [raised |-> TRUE, res |-> EmptyResult]
    ELSE [raised |-> FALSE, res |-> Tetra3Result]

---------------------------------------------------------------------------
(* The OnStep mount client: mounts/onstep/lx200.py                         *)

\* the client is called at most MaxCalls times
MaxCalls == 4

\* a result whose declination is missing
RaOnlyResult == SolveResult(Num(2969640), None, None, None, Dash)

\* the results handed to the client
MountResults == {ExampleResult, Tetra3Result, ZeroResult, EmptyResult, RaOnlyResult}

\* f":Sr{self._format_ra(result.ra_deg)}#": None / 15.0 raises TypeError
SetRaCommand(res) ==
    IF res.ra_deg = None THEN [raises |-> TRUE, text |-> <<>>]
    ELSE [raises |-> FALSE,
          text |-> <<":","S","r">> \o OnStepFormatRa(res.ra_deg.v) \o <<"#">>]

\* f":Sd{self._format_dec(result.dec_deg)}#": None >= 0 raises TypeError
SetDecCommand(res) ==
    IF res.dec_deg = None THEN [raises |-> TRUE, text |-> <<>>]
    ELSE [raises |-> FALSE,
          text |-> <<":","S","d">> \o OnStepFormatDec(res.dec_deg.v) \o <<"#">>]

SlewCommand == [raises |-> FALSE, text |-> <<":","M","S","#">>]
SyncCommand == [raises |-> FALSE, text |-> <<":","C","M","#">>]

\* whether each _send of a call gets through: create_connection or sendall
\* raises OSError otherwise
SendOutcomes == [1..4 -> BOOLEAN]

\* the statements self._send(...) of a method run in order, every command
\* sent whatever happened to the one before it
RECURSIVE RunSendsKeepsGoing(_, _, _, _)
RunSendsKeepsGoing(cmds, ok, i, sent) ==
    IF i > Len(cmds) THEN [sent |-> sent, err |-> ""]
    ELSE IF cmds[i].raises \/ ~ok[i] THEN RunSendsKeepsGoing(cmds, ok, i + 1, sent)
    ELSE RunSendsKeepsGoing(cmds, ok, i + 1, Append(sent, cmds[i].text))

\* the statements self._send(...) of a method run in order: an exception
\* raised while a command is formatted or sent leaves the method
RECURSIVE RunSends(_, _, _, _)
RunSends(cmds, ok, i, sent) ==
    IF i > Len(cmds) THEN [sent |-> sent, err |-> ""]
    ELSE IF cmds[i].raises THEN [sent |-> sent, err |-> "TypeError"]
    ELSE IF ~ok[i] THEN [sent |-> sent, err |-> "OSError"]
    ELSE RunSends(cmds, ok, i + 1, Append(sent, cmds[i].text))

\* OnStepClient.sync_pointing(result)
SyncPointing(res, ok) ==
    RunSends(<<SetRaCommand(res), SetDecCommand(res), SyncCommand>>, ok, 1, <<>>)

\* OnStepClient.slew_then_sync(result)
SlewThenSync(res, ok) ==
    RunSends(<<SetRaCommand(res), SetDecCommand(res), SlewCommand, SyncCommand>>,
             ok, 1, <<>>)

NoMountCall ==
    [calls |-> 0, method |-> "", res |-> EmptyResult, sent |-> <<>>, err |-> ""]

MountQuiet == mount = NoMountCall

\* a caller calls sync_pointing
CallSyncPointing(res, ok) ==
    /\ mount.calls < MaxCalls
    /\ mount' = [calls |-> mount.calls + 1, method |-> "sync_pointing", res |-> res,
                 sent |-> SyncPointing(res, ok).sent, err |-> SyncPointing(res, ok).err]

\* a caller calls slew_then_sync
CallSlewThenSync(res, ok) ==
    /\ mount.calls < MaxCalls
    /\ mount' = [calls |-> mount.calls + 1, method |-> "slew_then_sync", res |-> res,
                 sent |-> SlewThenSync(res, ok).sent, err |-> SlewThenSync(res, ok).err]

---------------------------------------------------------------------------
(* The orchestrator: the while True loop of solve_worker.main              *)

\* settings.mode: solve|align|demo|test
Modes == {"solve", "align", "test", "demo"}
\* settings.solver.type
SolverTypes == {"astrometry", "tetra3"}
\* what reload_if_changed can leave in the in-memory settings
SettingsValues == [mode : Modes, solver_type : SolverTypes, onstep_enabled : BOOLEAN]

\* the fields of class Settings
SettingsFields ==
    {"mode", "web_port", "lx200_port", "log_level", "solver", "camera", "onstep",
     "logging"}

\* settings.onstep_sync_mode: pydantic raises AttributeError for a name that
\* is no field of the model
SyncModeLookup ==
    IF "onstep_sync_mode" \in SettingsFields
    THEN [raises |-> FALSE, v |-> "sync_pointing"]
    ELSE [raises |-> TRUE, v |-> ""]

\* the acceptance threshold of "conf_val > 0.5", in hundredths
ConfThreshold == 50
\* "conf_val = 1.0" of the except clause, in hundredths
DefaultConfVal == 100
\* settings.solver.hint_timeout, in ticks
HintTimeout == 2
\* the clock stops at MaxTime ticks
MaxTime == 3

\* what camera.capture() does to camera.last_error: the Pi path clears it on
\* success, the demo path keeps it on success, a failure sets it
CaptureOutcomes == {"pi_ok", "demo_ok", "fail"}

\* camera.capture(), as far as camera.last_error goes
Capture(cap, le) ==
    IF cap = "pi_ok" THEN "" ELSE IF cap = "demo_ok" THEN le ELSE "camera"

\* conf_val of main: float(conf), or 1.0 when float() raises
ConfVal(conf) == IF conf.t = "num" THEN conf.v ELSE DefaultConfVal

\* "if last_ra is not None and last_dec is not None": the solver is called with hints
UseHint(ra, dec) == ra # None /\ dec # None

\* "if res and conf_val > 0.5": a SolveResult is always true
AcceptsResult(cv) == cv > ConfThreshold

\* error or camera.get_last_error()
ErrorOr(error, le) == IF error # "" THEN error ELSE le

\* worker_status.json does not exist
StatusAbsent ==
    [exists |-> FALSE, timestamp |-> None, mode |-> "", ra |-> None,
     dec |-> None, confidence |-> None, error |-> ""]

\* a write_status that writes the fields of res in every mode
WriteStatusOverwrites(prev, mode, res, error, t) ==
    [exists |-> TRUE, timestamp |-> Num(t), mode |-> mode,
     ra |-> res.ra_deg, dec |-> res.dec_deg, confidence |-> res.confidence,
     error |-> error]

\* solve_worker.write_status(mode, res, error) at tick t, prev the file's content
WriteStatus(prev, mode, res, error, t) ==
    IF mode = "solve" /\ res.ra_deg # None /\ res.dec_deg # None
    THEN [exists |-> TRUE, timestamp |-> Num(t), mode |-> mode,
          ra |-> res.ra_deg, dec |-> res.dec_deg,
          confidence |-> IF res.confidence = None \/ res.confidence = Num(0)
                         THEN Dash ELSE res.confidence,
          error |-> error]
    ELSE [exists |-> TRUE, timestamp |-> prev.timestamp, mode |-> mode,
          ra |-> prev.ra, dec |-> prev.dec, confidence |-> prev.confidence,
          error |-> error]

\* no client call in the iteration
NoPush == [method |-> "", sent |-> <<>>, err |-> ""]

\* a call of a client method and how it ended
ClientCall(method, r) == [method |-> method, sent |-> r.sent, err |-> r.err]

\* the body of "if onstep: try: ..." up to its except clause
PushBlock(client, res, ok) ==
    IF ~client THEN NoPush
    ELSE IF SyncModeLookup.raises
    THEN [method |-> "", sent |-> <<>>, err |-> "AttributeError"]
    ELSE IF SyncModeLookup.v = "slew_then_sync"
    THEN ClientCall("slew_then_sync", SlewThenSync(res, ok))
    ELSE ClientCall("sync_pointing", SyncPointing(res, ok))

\* an inner clause that lets everything but a socket error through
InnerCatchesSocketErrors(err) == err = "OSError"

\* "except Exception as e" around the client call
InnerCatches(err) == TRUE

\* a loop clause that lets everything but an I/O error through
OuterCatchesIOErrors(exc) == exc = "OSError"

\* "except Exception as loop_exc" around the loop body
OuterCatches(exc) == TRUE

\* what can go wrong with the files in one iteration: nothing, or
\* write_status cannot read or write worker_status.json
Faults == {"none", "status"}

\* the send outcomes the client meets when main calls it
PushOutcomes == {[i \in 1..4 |-> TRUE], [i \in 1..4 |-> i < 3]}

\* history of one loop iteration
NoCycle ==
    [branch |-> "none", mode |-> "", res |-> EmptyResult, pubs |-> <<>>,
     hinted |-> FALSE, hintAge |-> 0, cacheWrite |-> FALSE,
     raised |-> FALSE, crashed |-> FALSE,
     captured |-> FALSE, solverCalls |-> 0, wrote |-> FALSE, push |-> NoPush,
     sleep |-> "none", exc |-> ""]

\* main() before its loop: the client exists if settings.onstep.enabled,
\* last_ra = None, last_dec = None
OrchInit ==
    /\ settings \in SettingsValues
    /\ onstep = settings.onstep_enabled
    /\ running = TRUE
    /\ last_ra = None
    /\ last_dec = None
    /\ conf_val = Unbound
    /\ cyc = NoCycle
    /\ cacheTime = 0
    /\ status = StatusAbsent
    /\ last_error = ""

\* the primary solver's call: Tetra3Solver or AstrometrySolver by settings.solver.type
SolverReturns(solver_type, hinted) ==
    IF solver_type = "tetra3" THEN {Tetra3Solve(hinted)} ELSE AstrometryReturns

\* the statements every align and solve iteration ends with: write_status,
\* lx200.publish, the client call, time.sleep(0.1); exc is the exception
\* that reaches the loop's except clause, "" if none does
TailWithPush(mode, res, error, p) ==
    [wrote |-> TRUE, status |-> WriteStatus(status, mode, res, error, now),
     pubs |-> <<res>>, last |-> SomeLast(res), push |-> p,
     exc |-> IF p.err # "" /\ ~InnerCatches(p.err) THEN p.err ELSE ""]

CycleTail(mode, res, error, f, ok) ==
    IF f = "status"
    THEN [wrote |-> FALSE, status |-> status, pubs |-> <<>>, last |-> _last,
          push |-> NoPush, exc |-> "OSError"]
    ELSE TailWithPush(mode, res, error, PushBlock(onstep, res, ok))

\* time.sleep(0.1) at the end of the body, time.sleep(1.0) in the except clause
SleepAfter(exc) == IF exc = "" THEN "cadence" ELSE "backoff"

\* whether the loop goes on after an iteration that raised exc
GoesOn(exc) == exc = "" \/ OuterCatches(exc)

\* an iteration whose settings.reload_if_changed() raises: settings.json is
\* no valid JSON
CycleReloadFails ==
    /\ running
    /\ cyc' = [NoCycle EXCEPT !.exc = "JSONDecodeError",
                              !.sleep = SleepAfter("JSONDecodeError")]
    /\ running' = GoesOn("JSONDecodeError")
    /\ UNCHANGED <<settings, last_ra, last_dec, conf_val, cacheTime, status,
                   last_error, onstep, _last>>

\* one iteration in test mode: write_status, sleep, continue
CycleTest(s, f) ==
    /\ running
    /\ s.mode = "test"
    /\ settings' = s
    /\ status' = IF f = "status" THEN status
                 ELSE WriteStatus(status, s.mode, EmptyResult, "", now)
    /\ cyc' = [NoCycle EXCEPT !.branch = "test", !.mode = s.mode,
                              !.wrote = (f # "status"),
                              !.exc = IF f = "status" THEN "OSError" ELSE "",
                              !.sleep = IF f = "status" THEN "backoff" ELSE "test"]
    /\ running' = GoesOn(IF f = "status" THEN "OSError" ELSE "")
    /\ UNCHANGED <<last_ra, last_dec, conf_val, cacheTime, last_error, onstep, _last>>

\* an align iteration that takes its result from the frame it captured
AlignResultFromFrame(cap) == IF cap = "fail" THEN EmptyResult ELSE ExampleResult

\* res of an align iteration, whatever camera.capture() gave
AlignResult(cap) == EmptyResult

\* what an align iteration whose last statements did t leaves behind
AlignEnds(s, t) ==
    /\ status' = t.status
    /\ _last' = t.last
    /\ cyc' = [NoCycle EXCEPT !.branch = "align", !.mode = s.mode,
                             !.captured = TRUE, !.pubs = t.pubs,
                             !.wrote = t.wrote, !.push = t.push,
                             !.exc = t.exc, !.sleep = SleepAfter(t.exc)]
    /\ running' = GoesOn(t.exc)

\* one iteration in align mode: capture, the empty result, write_status,
\* publish, the client call
CycleAlign(s, cap, f, ok) ==
    /\ running
    /\ s.mode = "align"
    /\ settings' = s
    /\ last_error' = Capture(cap, last_error)
    /\ AlignEnds(s, CycleTail(s.mode, AlignResult(cap),
                              ErrorOr("", Capture(cap, last_error)), f, ok))
    /\ UNCHANGED <<last_ra, last_dec, conf_val, cacheTime, onstep>>

\* what a solve iteration leaves behind: the solver returned or raised ret,
\* res, cv and le are main's res, conf_val and camera.last_error after the
\* inner try, and t is what the last statements did if they were reached
SolveEnds(s, ret, res, cv, le, t) ==
    LET crashed == cv = Unbound
        accept == ~crashed /\ AcceptsResult(cv.v)
        exc == IF crashed THEN "UnboundLocalError" ELSE t.exc
    IN  /\ settings' = s
        /\ conf_val' = cv
        /\ last_error' = le
        /\ last_ra' = IF accept THEN res.ra_deg ELSE last_ra
        /\ last_dec' = IF accept THEN res.dec_deg ELSE last_dec
        /\ cacheTime' = IF accept THEN now ELSE cacheTime
        /\ status' = IF crashed THEN status ELSE t.status
        /\ _last' = IF crashed THEN _last ELSE t.last
        /\ cyc' = [branch |-> "solve", mode |-> s.mode, res |-> res,
                   pubs |-> IF crashed THEN <<>> ELSE t.pubs,
                   hinted |-> UseHint(last_ra, last_dec),
                   hintAge |-> now - cacheTime,
                   cacheWrite |-> accept,
                   raised |-> ret.raised, crashed |-> crashed,
                   captured |-> TRUE, solverCalls |-> 1,
                   wrote |-> ~crashed /\ t.wrote,
                   push |-> IF crashed THEN NoPush ELSE t.push,
                   sleep |-> SleepAfter(exc), exc |-> exc]
        /\ running' = GoesOn(exc)

\* one iteration in any other mode: capture, solve, cache update,
\* write_status, publish, the client call; an exception that leaves the
\* inner try (conf_val read before its first assignment) is caught by the
\* loop's except clause
CycleSolve(s, cap, ret, f, ok) ==
    /\ running
    /\ s.mode \notin {"test", "align"}
    /\ ret \in SolverReturns(s.solver_type, UseHint(last_ra, last_dec))
    /\ LET error == IF ret.raised THEN "solver" ELSE ""
           res == IF ret.raised THEN EmptyResult ELSE ret.res
           cv == IF ret.raised THEN conf_val ELSE Num(ConfVal(ret.res.confidence))
           le == IF ret.raised THEN "solver" ELSE Capture(cap, last_error)
       IN  SolveEnds(s, ret, res, cv, le,
                     CycleTail(s.mode, res, ErrorOr(error, le), f, ok))
    /\ UNCHANGED onstep

\* a second passes
Tick ==
    /\ now < MaxTime
    /\ now' = now + 1

---------------------------------------------------------------------------
(* POST /solve of web/app.py                                               *)

\* LAST_SOLVE = {"ra": None, "dec": None, "timestamp": None}
NoLastSolve == [ra |-> None, dec |-> None, timestamp |-> None]

NoWebCall ==
    [made |-> FALSE, stored |-> NoLastSolve, at |-> 0, hinted |-> FALSE,
     ra_hint |-> None, dec_hint |-> None, result |-> "", ra |-> None,
     dec |-> None, phases |-> 0, p1 |-> "", p2 |-> ""]

WebInit ==
    /\ LAST_SOLVE = NoLastSolve
    /\ webCall = NoWebCall

\* the freshness test with < for <=
WebHintStrict(ls, t, hint_timeout) ==
    /\ ls.ra # None /\ ls.dec # None /\ ls.timestamp # None
    /\ t - ls.timestamp.v < hint_timeout

\* "Determine if we should use a hint": hint is set when LAST_SOLVE holds
\* ra, dec and timestamp and now - LAST_SOLVE["timestamp"] <= hint_timeout
WebHint(ls, t, hint_timeout) ==
    /\ ls.ra # None /\ ls.dec # None /\ ls.timestamp # None
    /\ t - ls.timestamp.v <= hint_timeout

\* a write_status of the web application that overwrites in every case
WebWriteStatusOverwrites(prev, mode, ra, dec, confidence, error, t) ==
    [exists |-> TRUE, timestamp |-> Num(t), mode |-> mode, ra |-> ra,
     dec |-> dec, confidence |-> confidence, error |-> error]

\* app.write_status(mode, ra, dec, confidence, error) at tick t
WebWriteStatus(prev, mode, ra, dec, confidence, error, t) ==
    IF mode = "solve" /\ ra # None /\ dec # None
    THEN [exists |-> TRUE, timestamp |-> Num(t), mode |-> mode, ra |-> ra,
          dec |-> dec, confidence |-> confidence, error |-> error]
    ELSE [exists |-> TRUE, timestamp |-> prev.timestamp, mode |-> mode,
          ra |-> prev.ra, dec |-> prev.dec, confidence |-> prev.confidence,
          error |-> error]

\* what solver.solve can give POST /solve, with what solve-field did
SolveOutcome(e) ==
    [raised |-> AstrometrySolve(e).raised, res |-> AstrometrySolve(e).res,
     phases |-> AstrometrySolve(e).phases, p1 |-> e.p1.kind, p2 |-> e.p2.kind]

WebSolveReturns == {SolveOutcome(e) : e \in SolverEnvs}

\* POST /solve: hint, solver.solve, write_status with STATUS's mode "solve",
\* and LAST_SOLVE unless the solver raised; returncode is 0 whenever solve
\* returns, so the answer is "error" only when solve raised.  ra and dec are
\* the fields of the answer; phases, p1 and p2 record what solve-field did
WebSolve(ret) ==
    LET hint == WebHint(LAST_SOLVE, now, HintTimeout)
    IN  /\ status' = IF ret.raised
                     THEN WebWriteStatus(status, "solve", None, None, None, "solver", now)
                     ELSE WebWriteStatus(status, "solve", ret.res.ra_deg, ret.res.dec_deg,
                                         ret.res.confidence, "", now)
        /\ LAST_SOLVE' = IF ret.raised THEN LAST_SOLVE
                         ELSE [ra |-> ret.res.ra_deg, dec |-> ret.res.dec_deg,
                               timestamp |-> Num(now)]
        /\ webCall' = [made |-> TRUE, stored |-> LAST_SOLVE, at |-> now,
                       hinted |-> hint,
                       ra_hint |-> IF hint THEN LAST_SOLVE.ra ELSE None,
                       dec_hint |-> IF hint THEN LAST_SOLVE.dec ELSE None,
                       result |-> IF ret.raised THEN "error" ELSE "success",
                       ra |-> IF ret.raised THEN None ELSE ret.res.ra_deg,
                       dec |-> IF ret.raised THEN None ELSE ret.res.dec_deg,
                       phases |-> ret.phases, p1 |-> ret.p1, p2 |-> ret.p2]

---------------------------------------------------------------------------
(* One connection: LX200Server._client_loop                                *)

\* the byte strings a client sends, one command (or part of one) each
ClientTokens ==
    { <<":","G","R","#">>, <<":","g","r","#">>, <<"R","S","#">>,
      <<":","G","D","#">>, <<"\n","g","d","#">>,
      <<":","G","V","P","#">>, <<":","G","V","N","#">>,
      <<":","G","V","D","#">>, <<":","G","C","#">>,
      <<":","G","V","T","#">>, <<":","G","L","#">>,
      <<":","U","#">>,
      <<":","S","C","1","#">>, <<":","S","L","2","#">>,
      <<":","S","t","3","#">>, <<":","S","g","4","#">>,
      <<":","M","S","#">>, <<":","M","n","#">>, <<":","M","e","#">>,
      <<":","M","s","#">>, <<":","M","w","#">>,
      <<":","Q","#">>, <<":","g","v","p","#">>, <<"#">>,
      <<"C2","A0",":","G","R","#">>,
      <<":","G">> }

\* the tokens the framing specification builds its streams from
FramingTokens ==
    { <<":","G","R","#">>, <<"R","S","#">>, <<"\n",":","g","d","#">>, <<"#">>,
      <<"C2","A0",":","G","R","#">>, <<":","G">> }

\* at most MaxCmds tokens make a stream
MaxCmds == 2

RECURSIVE Flatten(_)
Flatten(ts) == IF ts = <<>> THEN <<>> ELSE Head(ts) \o Flatten(Tail(ts))

\* the byte streams a peer may send
Streams == {Flatten(ts) : ts \in UNION {[1..k -> FramingTokens] : k \in 1..MaxCmds}}

\* lines 99-103 of _client_loop: cmd = raw.strip(), and ":" put in front
\* of a command that does not start with it
Normalize(raw) ==
    LET cmd == Strip(raw)
    IN  IF StartsWith(cmd, <<":">>) THEN cmd ELSE <<":">> \o cmd

\* the inner while loop of _client_loop: cut buf at each "#"; gives the
\* commands handed to _handle_command and what stays in buf
RECURSIVE ParseCommands(_)
ParseCommands(b) ==
    LET idx == Find(b, "#")
    IN  IF idx = 0 THEN [cmds |-> <<>>, rest |-> b]
        ELSE LET raw == SubSeq(b, 1, idx)
                 more == ParseCommands(SubSeq(b, idx + 1, Len(b)))
             IN  IF Strip(raw) = <<>> THEN more
                 ELSE [cmds |-> <<[raw |-> raw, cmd |-> Normalize(raw)]>> \o more.cmds,
                       rest |-> more.rest]

\* _handle_command(conn, cmd) run without interruption: the bytes it sends
HandleCommand(cmd, l, w) ==
    IF IsCoordQuery(cmd) THEN CoordReply(cmd, CoordVal(cmd, l, l, l))
    ELSE StaticReply(cmd, w)

\* no command served yet
NoExchange ==
    [raw |-> <<>>, cmd |-> <<>>, reply |-> <<>>, last |-> NoLast, wall |-> WallQuiet]

\* a connection just accepted: buf = ""
\* a connection just accepted: _client_loop has not called recv yet
OpenConn == [open |-> TRUE, last |-> "none"]

ConnInit ==
    /\ stream \in Streams
    /\ conn = OpenConn
    /\ pos = 0
    /\ buf = <<>>
    /\ parsed = <<>>
    /\ replies = <<>>
    /\ wall \in WallClocks
    /\ exch = NoExchange

\* one pass of the outer loop: recv returns the next n bytes, they are
\* decoded and appended to buf, and every complete command is handled
ConnRecv(n) ==
    /\ conn.open
    /\ conn' = [open |-> TRUE, last |-> "data"]
    /\ n \in 1..(Len(stream) - pos)
    /\ LET chunk == SubSeq(stream, pos + 1, pos + n)
           got == ParseCommands(buf \o Decode(chunk))
       IN  /\ pos' = pos + n
           /\ buf' = got.rest
           /\ parsed' = parsed \o got.cmds
           /\ replies' = replies \o
                 [i \in 1..Len(got.cmds) |-> HandleCommand(got.cmds[i].cmd, _last, wall)]
    /\ UNCHANGED <<stream, wall, _last, exch>>

\* recv times out and closes the connection
ConnTimeoutBreaks ==
    /\ conn.open
    /\ conn' = [open |-> FALSE, last |-> "timeout"]
    /\ UNCHANGED <<stream, pos, buf, parsed, replies, wall, _last, exch>>

\* recv raises socket.timeout after 15 idle seconds: "continue"
ConnTimeout ==
    /\ conn.open
    /\ conn' = [open |-> TRUE, last |-> "timeout"]
    /\ UNCHANGED <<stream, pos, buf, parsed, replies, wall, _last, exch>>

\* the peer has sent everything and closed: recv returns b"", "break", and
\* the finally clause closes the connection
ConnEof ==
    /\ conn.open
    /\ pos = Len(stream)
    /\ conn' = [open |-> FALSE, last |-> "eof"]
    /\ UNCHANGED <<stream, pos, buf, parsed, replies, wall, _last, exch>>

\* recv raises another OSError (the peer reset the connection): the except
\* clause of _client_loop logs it and the finally clause closes the connection
ConnError ==
    /\ conn.open
    /\ conn' = [open |-> FALSE, last |-> "error"]
    /\ UNCHANGED <<stream, pos, buf, parsed, replies, wall, _last, exch>>

\* the raw texts the inner loop can cut from buf: the complete commands of
\* ClientTokens as decoded
RawCommands == {Decode(t) : t \in {k \in ClientTokens : k[Len(k)] = "#"}}

\* lines 97-106 of _client_loop for one raw text: the command is normalized
\* and _handle_command replies
Serve(raw) ==
    /\ exch' = [raw |-> raw, cmd |-> Normalize(raw),
                reply |-> HandleCommand(Normalize(raw), _last, wall),
                last |-> _last, wall |-> wall]
    /\ UNCHANGED <<_last, wall>>

\* publish(result), run without interruption
Publish(r) ==
    /\ _last' = SomeLast(r)
    /\ UNCHANGED <<exch, wall>>

\* the wall clock moves on
ClockMoves(w) ==
    /\ w # wall
    /\ wall' = w
    /\ UNCHANGED <<exch, _last>>

---------------------------------------------------------------------------
(* The coordinate formatters called on their own                           *)

\* the grids reach MaxGrid steps from zero
MaxGrid == 40

\* right ascensions in [0, 360), written in units of 1/UnitsPerDeg degree
RaInputs ==
    {i * 125 : i \in 0..MaxGrid} \cup {3599999 - i * 12500 : i \in 0..MaxGrid}
        \cup {2969640, 1800000}

\* declinations in [-90, 90]
DecInputs ==
    {i * 25 : i \in 0..MaxGrid} \cup {-(i * 25) - 1 : i \in 0..MaxGrid}
        \cup {900000 - i * 2500 : i \in 0..MaxGrid}
        \cup {i * 2500 - 900000 : i \in 0..MaxGrid}
        \cup {427365, 450000}

NoFormat ==
    [done |-> FALSE, x |-> 0, top |-> 0, m |-> 0, s |-> 0, text |-> <<>>,
     onstep |-> <<>>]

FmtQuiet == angle = [kind |-> "ra", u |-> 0] /\ fmt = NoFormat

FmtInit ==
    /\ angle \in [kind : {"ra"}, u : RaInputs] \cup [kind : {"dec"}, u : DecInputs]
    /\ fmt = NoFormat

\* _format_ra(angle) of both classes
FormatRaCall ==
    /\ angle.kind = "ra"
    /\ ~fmt.done
    /\ fmt' = [done |-> TRUE, x |-> ToFloat(angle.u),
               top |-> RaFields(ToFloat(angle.u)).h,
               m |-> RaFields(ToFloat(angle.u)).m,
               s |-> RaFields(ToFloat(angle.u)).s,
               text |-> FormatRa(angle.u), onstep |-> OnStepFormatRa(angle.u)]
    /\ UNCHANGED angle

\* _format_dec(angle) of both classes
FormatDecCall ==
    /\ angle.kind = "dec"
    /\ ~fmt.done
    /\ LET v == ToFloat(IF angle.u >= 0 THEN angle.u ELSE -angle.u)
       IN  fmt' = [done |-> TRUE, x |-> v,
                   top |-> DecFields(v).d, m |-> DecFields(v).m, s |-> DecFields(v).s,
                   text |-> FormatDec(angle.u), onstep |-> OnStepFormatDec(angle.u)]
    /\ UNCHANGED angle

---------------------------------------------------------------------------
(* The persisted configuration: Settings.reload_if_changed and save      *)

\* the timestamp clock stops at MaxClock ticks
MaxClock == 2

\* self._last_mtime = None
NoMtime == -1

\* the modes POST /mode accepts
WebModes == {"solve", "align", "test"}

\* Settings.reload_if_changed on the settings s of one process, settings.json
\* being there: the file is read only if its mtime is greater than _last_mtime
ReloadIfChanged(s, file) ==
    IF s.last_mtime = NoMtime \/ file.mtime > s.last_mtime
    THEN [mode |-> file.mode, last_mtime |-> file.mtime]
    ELSE s

\* Settings.save(): the file gets the settings and the clock's timestamp
Save(s) == [mode |-> s.mode, mtime |-> fsClock]

\* what POST /mode can be sent as "mode": an accepted mode, another string,
\* or nothing (payload.get gives None for a missing key and for null)
MissingMode == "None"

RequestedModes == WebModes \cup {"demo", "invalid", "", MissingMode}

\* the latest answer of the web process: the endpoint, the HTTP status, the
\* mode in the body, what was asked, and the persisted and in-memory mode the
\* handler found once the middleware had reloaded the settings
NoResponse ==
    [endpoint |-> "", code |-> 0, mode |-> "", asked |-> "", file |-> "",
     memory |-> ""]

CfgQuiet ==
    /\ cfgFile = [mode |-> "test", mtime |-> 0]
    /\ fsClock = 0
    /\ workerCfg = [mode |-> "test", last_mtime |-> NoMtime, ran |-> "", fresh |-> FALSE]
    /\ webCfg = [mode |-> "test", last_mtime |-> NoMtime, resp |-> NoResponse]

\* settings = Settings() in each process, settings.json written earlier
CfgInit ==
    /\ cfgFile \in [mode : WebModes, mtime : {0}]
    /\ fsClock \in 0..1
    /\ workerCfg = [mode |-> "test", last_mtime |-> NoMtime, ran |-> "", fresh |-> FALSE]
    /\ webCfg = [mode |-> "test", last_mtime |-> NoMtime, resp |-> NoResponse]

\* a POST /mode that saves whatever it is sent
SetModeUnchecked(mode) ==
    /\ cfgFile' = Save([mode |-> mode])
    /\ webCfg' = [mode |-> mode, last_mtime |-> fsClock,
                  resp |-> [endpoint |-> "mode", code |-> 200, mode |-> mode,
                            asked |-> mode, file |-> cfgFile.mode,
                            memory |-> ReloadIfChanged([mode |-> webCfg.mode,
                                last_mtime |-> webCfg.last_mtime], cfgFile).mode]]
    /\ workerCfg' = [workerCfg EXCEPT !.fresh = FALSE]
    /\ UNCHANGED fsClock

\* POST /mode: the middleware's reload_if_changed, then HTTP 400 for a mode
\* outside the list, or reload_if_changed, settings.mode = mode,
\* settings.save() and the answer "success"
SetMode(mode) ==
    /\ IF mode \notin WebModes
           THEN /\ webCfg' = [mode |-> ReloadIfChanged([mode |-> webCfg.mode,
                                  last_mtime |-> webCfg.last_mtime], cfgFile).mode,
                              last_mtime |-> ReloadIfChanged([mode |-> webCfg.mode,
                                  last_mtime |-> webCfg.last_mtime], cfgFile).last_mtime,
                              resp |-> [endpoint |-> "mode", code |-> 400, mode |-> "",
                                        asked |-> mode, file |-> cfgFile.mode,
                                        memory |-> ReloadIfChanged([mode |-> webCfg.mode,
                                            last_mtime |-> webCfg.last_mtime], cfgFile).mode]]
                /\ UNCHANGED <<cfgFile, workerCfg>>
       ELSE /\ cfgFile' = Save([mode |-> mode])
            /\ webCfg' = [mode |-> mode, last_mtime |-> fsClock,
                          resp |-> [endpoint |-> "mode", code |-> 200, mode |-> mode,
                                    asked |-> mode, file |-> cfgFile.mode,
                                    memory |-> ReloadIfChanged([mode |-> webCfg.mode,
                                        last_mtime |-> webCfg.last_mtime], cfgFile).mode]]
            /\ workerCfg' = [workerCfg EXCEPT !.fresh = FALSE]
    /\ UNCHANGED fsClock

\* GET /status: reload_if_changed (in the middleware and in the handler),
\* then settings.mode in the answer
GetStatus ==
    /\ webCfg' = [mode |-> ReloadIfChanged([mode |-> webCfg.mode,
                      last_mtime |-> webCfg.last_mtime], cfgFile).mode,
                  last_mtime |-> ReloadIfChanged([mode |-> webCfg.mode,
                      last_mtime |-> webCfg.last_mtime], cfgFile).last_mtime,
                  resp |-> [endpoint |-> "status", code |-> 200,
                            mode |-> ReloadIfChanged([mode |-> webCfg.mode,
                                last_mtime |-> webCfg.last_mtime], cfgFile).mode,
                            asked |-> "", file |-> cfgFile.mode,
                            memory |-> ReloadIfChanged([mode |-> webCfg.mode,
                                last_mtime |-> webCfg.last_mtime], cfgFile).mode]]
    /\ UNCHANGED <<cfgFile, fsClock, workerCfg>>

\* the top of one pass of the worker's loop: reload_if_changed, then the
\* branch of settings.mode
WorkerReload ==
    /\ LET s == ReloadIfChanged([mode |-> workerCfg.mode,
                                 last_mtime |-> workerCfg.last_mtime], cfgFile)
       IN  workerCfg' = [mode |-> s.mode, last_mtime |-> s.last_mtime,
                         ran |-> s.mode, fresh |-> TRUE]
    /\ UNCHANGED <<cfgFile, fsClock, webCfg>>

\* the file system's clock reaches its next tick
FsTick ==
    /\ fsClock < MaxClock
    /\ fsClock' = fsClock + 1
    /\ UNCHANGED <<cfgFile, workerCfg, webCfg>>

---------------------------------------------------------------------------
(* AstrometrySolver.solve called on its own                               *)

NoSolveCall ==
    [done |-> FALSE, image |-> FALSE, raised |-> FALSE, res |-> EmptyResult,
     phases |-> 0, p1 |-> "", solved |-> FALSE, xy |-> FALSE, p2 |-> "",
     out1 |-> <<>>, fallback |-> FALSE, ra_hint |-> None, dec_hint |-> None,
     log |-> FALSE, r1 |-> EmptyResult, r2 |-> EmptyResult, cmds |-> <<>>,
     msgs |-> <<>>, logs |-> NoLogs]

NoClassify ==
    [done |-> FALSE, ra_deg |-> None, dec_deg |-> None, solved_exists |-> FALSE,
     ok |-> FALSE]

\* the parse loop before the first line
NoParse == [lines |-> <<>>, acc |-> ParseStart]

SolverQuiet == solveCall = NoSolveCall /\ classify = NoClassify /\ parse = NoParse

\* solve(image_path, ra_hint, dec_hint, log=..., enable_fallback=...) as the
\* call c; r1 and r2 are what the two runs of solve-field were parsed to
CallSolve(c) ==
    /\ ~solveCall.done /\ ~classify.done
    /\ solveCall' = [done |-> TRUE, image |-> c.image,
                     raised |-> AstrometrySolve(c).raised,
                     res |-> AstrometrySolve(c).res,
                     phases |-> AstrometrySolve(c).phases,
                     p1 |-> c.p1.kind, solved |-> c.solved, xy |-> c.xy,
                     p2 |-> c.p2.kind, out1 |-> c.p1.out,
                     fallback |-> c.fallback,
                     ra_hint |-> c.ra_hint, dec_hint |-> c.dec_hint,
                     log |-> c.log,
                     r1 |-> ExecuteSolveField(c.p1),
                     r2 |-> ExecuteSolveField(c.p2),
                     cmds |-> SolveCommands(c),
                     msgs |-> SolveMessages(c),
                     logs |-> LogAll(NoLogs, SolveMessages(c), c.log, now)]
    /\ UNCHANGED <<classify, parse>>

\* the values _is_solve_successful can be handed
CoordValues == {None, Num(0), Num(2969640)}

\* _is_solve_successful(ra_deg, dec_deg, base_path) with or without the
\* marker file
CallIsSolveSuccessful(ra_deg, dec_deg, solved_exists) ==
    /\ ~solveCall.done /\ ~classify.done
    /\ classify' = [done |-> TRUE, ra_deg |-> ra_deg, dec_deg |-> dec_deg,
                    solved_exists |-> solved_exists,
                    ok |-> IsSolveSuccessful(ra_deg, dec_deg, solved_exists)]
    /\ UNCHANGED <<solveCall, parse>>

\* the parse loop reads one more line of the standard output
MaxLines == 3

ReadLine(line) ==
    /\ Len(parse.lines) < MaxLines
    /\ parse' = [lines |-> Append(parse.lines, line),
                 acc |-> ParseLine(parse.acc, line)]
    /\ UNCHANGED <<solveCall, classify>>

---------------------------------------------------------------------------
(* worker_status.json: write_status of the worker and of the web          *)
(* application, and GET /worker-status                                    *)

\* the two callers of write_status: the worker's loop and POST /solve
Writers == {"worker", "web"}

\* the size of json.dump's text, as far as it depends on the record: null is
\* 4 characters, a timestamp 21, "-" 3, 0.0 3, 296.964 and 42.7365 7, 90.0 4
ValueLen(x) ==
    IF x = None THEN 4
    ELSE IF x = Dash \/ x = Num(0) THEN 3
    ELSE IF x = Num(90) \/ x = Num(30) THEN 4
    ELSE 7

JsonLen(rec) ==
    (IF rec.timestamp = None THEN 4 ELSE 21)
    + (IF rec.mode = "test" THEN 6 ELSE 7)
    + ValueLen(rec.ra) + ValueLen(rec.dec) + ValueLen(rec.confidence)
    + (IF rec.error = "" THEN 4 ELSE 8)

\* the file before the first write; written says that a write has ended
NoFile == [state |-> "absent", rec |-> StatusAbsent, len |-> 0, written |-> FALSE]

\* a caller outside write_status, after n calls
IdleWriter(n) ==
    [pc |-> "idle", n |-> n, prev |-> StatusAbsent, rec |-> StatusAbsent,
     mode |-> "", ra |-> None, dec |-> None, confidence |-> None,
     error |-> "", at |-> 0]

NoRead == [made |-> FALSE, by |-> "", found |-> "", complete |-> FALSE, after |-> FALSE]

StatusQuiet ==
    /\ sfile = NoFile
    /\ writer = [w \in Writers |-> IdleWriter(0)]
    /\ reader = NoRead

\* each caller makes at most MaxWrites calls
MaxWrites == 1

\* what the callers hand write_status: the worker the mode and the result of
\* its cycle, with the camera's error when there is no frame; POST /solve
\* the mode "solve" and the solver's result, or None and the error text
StatusWrites(w) ==
    IF w = "worker"
        THEN { [mode |-> "solve", res |-> ExampleResult, error |-> ""],
               [mode |-> "solve", res |-> EmptyResult, error |-> "camera"],
               [mode |-> "align", res |-> EmptyResult, error |-> ""],
               [mode |-> "test", res |-> EmptyResult, error |-> ""] }
    ELSE { [mode |-> "solve", res |-> ExampleResult, error |-> ""],
           [mode |-> "solve", res |-> EmptyResult, error |-> "solver"] }

\* the record a caller builds from what it read
BuildStatus(w, prev, mode, res, error, t) ==
    IF w = "worker" THEN WriteStatus(prev, mode, res, error, t)
    ELSE WebWriteStatus(prev, mode, res.ra_deg, res.dec_deg, res.confidence, error, t)

\* what a reader of the file gets: complete is false when the file is absent
\* or json.load raises on it
ReadFile(by) ==
    [made |-> TRUE, by |-> by, found |-> sfile.state,
     complete |-> sfile.state = "whole", after |-> sfile.written]

\* write_status up to the record: the file is read when it exists, and
\* json.load raises on an empty or corrupt file, which ends the call
BeginWrite(w, a) ==
    /\ writer[w].pc = "idle" /\ writer[w].n < MaxWrites
    /\ writer' = [writer EXCEPT ![w] =
          IF sfile.state \in {"empty", "corrupt"} THEN IdleWriter(@.n + 1)
          ELSE [pc |-> "loaded", n |-> @.n + 1, prev |-> sfile.rec,
                rec |-> BuildStatus(w, sfile.rec, a.mode, a.res, a.error, now),
                mode |-> a.mode, ra |-> a.res.ra_deg, dec |-> a.res.dec_deg,
                confidence |-> a.res.confidence, error |-> a.error,
                at |-> now]]
    /\ reader' = IF sfile.state = "absent" THEN reader ELSE ReadFile(w)
    /\ UNCHANGED sfile

\* open(STATUS_PATH, "w"): the file is cut to no bytes
OpenWrite(w) ==
    /\ writer[w].pc = "loaded"
    /\ writer' = [writer EXCEPT ![w].pc = "opened"]
    /\ sfile' = [sfile EXCEPT !.state = "empty", !.rec = StatusAbsent, !.len = 0]
    /\ UNCHANGED reader

\* json.dump and the end of the with block: the text goes to offset 0 of
\* the file; bytes another writer put there beyond its end stay
CloseWrite(w) ==
    /\ writer[w].pc = "opened"
    /\ sfile' = IF sfile.len <= JsonLen(writer[w].rec)
                    THEN [state |-> "whole", rec |-> writer[w].rec,
                          len |-> JsonLen(writer[w].rec), written |-> TRUE]
                ELSE [sfile EXCEPT !.state = "corrupt", !.rec = StatusAbsent,
                                   !.written = TRUE]
    /\ writer' = [writer EXCEPT ![w] = IdleWriter(@.n)]
    /\ UNCHANGED reader

\* GET /worker-status: the record of the file, or a dictionary with only an
\* error key when the file is absent or json.load raises
GetWorkerStatus ==
    /\ reader' = ReadFile("api")
    /\ UNCHANGED <<sfile, writer>>

---------------------------------------------------------------------------
(* The settings tree: Settings.reload_if_changed, GET and POST /settings   *)

\* a value of the tree or of a JSON document: a scalar, or a dictionary given
\* as its set of <<key, scalar>> pairs
Leaf(n) == [dict |-> FALSE, v |-> n, d |-> {}]
Dict(pairs) == [dict |-> TRUE, v |-> 0, d |-> pairs]

\* the sections of Settings() that matter here, with their defaults:
\* solver.hint_timeout, solver.solve_radius, logging.level (1 is INFO, 2
\* DEBUG) and the nested section logging.rotation
DefaultSettings ==
    [solver  |-> [hint_timeout |-> Leaf(10), solve_radius |-> Leaf(20)],
     logging |-> [level |-> Leaf(1),
                  rotation |-> Dict({<<"max_file_size_mb", 10>>, <<"backup_count", 5>>})]]

\* the JSON documents sent to POST /settings or put into settings.json
SettingsPayloads ==
    { [solver |-> [solve_radius |-> Leaf(25)]],
      [solver |-> [bogus |-> Leaf(7)]],
      [bogus |-> [solve_radius |-> Leaf(25)]],
      [solver |-> [hint_timeout |-> Leaf(5)], logging |-> [level |-> Leaf(2)]],
      [logging |-> [rotation |-> Dict({<<"backup_count", 3>>})]] }

\* the inner loop of the merge: setattr(current, k, v) for the keys the
\* section has
MergeSection(current, values) ==
    [k \in DOMAIN current |-> IF k \in DOMAIN values THEN values[k] ELSE current[k]]

\* "for section, values in data.items(): if hasattr(settings, section)": the
\* known sections of the document are merged into the tree
MergeSettings(tree, data) ==
    [sec \in DOMAIN tree |->
        IF sec \in DOMAIN data THEN MergeSection(tree[sec], data[sec]) ELSE tree[sec]]

\* settings_dump() of update_settings: the sections written to settings.json
\* (mode, web_port, lx200_port, solver, camera, onstep; no logging)
SettingsDump(tree) == [sec \in {"solver"} |-> tree[sec]]

\* reload_if_changed: the file is merged when its mtime is newer
ReloadTree(ws) ==
    IF ws.newer THEN MergeSettings(ws.mem, ws.file) ELSE ws.mem

NoSettingsCall == [made |-> FALSE, before |-> DefaultSettings,
                   data |-> [solver |-> [bogus |-> Leaf(7)]],
                   after |-> DefaultSettings]

\* settings = Settings(), and the settings.json reload_if_changed creates
\* from model_dump() when there is none
SettingsQuiet ==
    webSettings = [mem |-> DefaultSettings, file |-> DefaultSettings,
                   newer |-> TRUE, post |-> NoSettingsCall,
                   got |-> NoSettingsCall]

---------------------------------------------------------------------------
(* LX200Server._accept_loop and the threads it starts                      *)

\* accept() may raise at most this many times in a run
MaxAcceptFailures == 2

\* a connection nobody has made yet, and the thread of one just accepted
NoThread == [state |-> "unborn", served |-> 0, cause |-> ""]
NewThread == [state |-> "serving", served |-> 0, cause |-> ""]

AcceptQuiet ==
    acceptor = [pc |-> "accept", logged |-> 0, threads |-> [c \in Conns |-> NoThread]]

\* accept() returns the next connection: a daemon thread is started for
\* it and the loop calls accept again
AcceptReturns ==
    /\ acceptor.pc = "accept"
    /\ \E c \in Conns :
          /\ acceptor.threads[c].state = "unborn"
          /\ \A d \in Conns : d < c => acceptor.threads[d].state # "unborn"
          /\ acceptor' = [acceptor EXCEPT !.threads[c] = NewThread]
    /\ UNCHANGED <<_last, exch, wall>>

\* accept() raises and nothing catches it: the thread of the loop ends
AcceptRaisesUncaught ==
    /\ acceptor.pc = "accept"
    /\ acceptor.logged < MaxAcceptFailures
    /\ acceptor' = [acceptor EXCEPT !.pc = "ended"]
    /\ UNCHANGED <<_last, exch, wall>>

\* accept() raises: "except Exception" logs it and goes to sleep
AcceptRaises ==
    /\ acceptor.pc = "accept"
    /\ acceptor.logged < MaxAcceptFailures
    /\ acceptor' = [acceptor EXCEPT !.pc = "backoff", !.logged = @ + 1]
    /\ UNCHANGED <<_last, exch, wall>>

\* time.sleep(0.5) is over: "continue"
AcceptBackoffEnds ==
    /\ acceptor.pc = "backoff"
    /\ acceptor' = [acceptor EXCEPT !.pc = "accept"]
    /\ UNCHANGED <<_last, exch, wall>>

\* the commands the connections of the accept loop send
AcceptCommands == {<<":","G","R","#">>, <<":","Q","#">>}

\* the thread of connection c reads one command and answers it
ThreadServes(c, raw) ==
    /\ acceptor.threads[c].state = "serving"
    /\ acceptor.threads[c].served < MaxCmds
    /\ acceptor' = [acceptor EXCEPT !.threads[c].served = @ + 1]
    /\ Serve(raw)

\* the loop of connection c ends: recv returned b"" ("eof"), or an
\* exception left the loop body ("error"); "finally" closes the connection
ThreadEnds(c, cause) ==
    /\ acceptor.threads[c].state = "serving"
    /\ acceptor' = [acceptor EXCEPT !.threads[c].state = "closed",
                                    !.threads[c].cause = cause]
    /\ UNCHANGED <<_last, exch, wall>>

---------------------------------------------------------------------------
(* LogCapture                                                              *)

\* the largest max_entries a capture is built with, and the most entries
\* added in a run
MaxEntries == 2
MaxAdds == 3

\* the callbacks; "bad" raises whenever it is called
Listeners == {"a", "bad"}
ListenerRaises(l) == l = "bad"

\* LogCapture(max_entries); an entry is the number of the add_entry call
\* that made it
NewCapture(max_entries) ==
    [max_entries |-> max_entries, entries |-> <<>>, listeners |-> <<>>, added |-> 0,
     calls |-> [l \in Listeners |-> <<>>], again |-> FALSE,
     got |-> [made |-> FALSE, count |-> None, held |-> <<>>, ret |-> <<>>]]

CaptureQuiet == capture = NewCapture(1)

\* a bounded queue that refuses a new entry when it is full
DequeAppendKeepsOldest(entries, e, maxlen) ==
    IF Len(entries) < maxlen THEN Append(entries, e) ELSE entries

\* deque(maxlen=max_entries).append(entry): when full, the entry at the
\* left end is discarded
DequeAppend(entries, e, maxlen) ==
    IF maxlen = 0 THEN <<>>
    ELSE IF Len(entries) < maxlen THEN Append(entries, e)
    ELSE Append(Tail(entries), e)

\* a notification loop without the try block: the exception of a listener
\* ends the loop
RECURSIVE NotifyUntilException(_, _, _)
NotifyUntilException(ls, calls, e) ==
    IF ls = <<>> THEN calls
    ELSE LET called == [calls EXCEPT ![Head(ls)] = Append(@, e)]
         IN  IF ListenerRaises(Head(ls)) THEN called
             ELSE NotifyUntilException(Tail(ls), called, e)

\* "for listener in self.listeners.copy(): try: listener(entry) except
\* Exception: pass": what each callback has been called with
RECURSIVE Notify(_, _, _)
Notify(ls, calls, e) ==
    IF ls = <<>> THEN calls
    ELSE Notify(Tail(ls), [calls EXCEPT ![Head(ls)] = Append(@, e)], e)

\* add_entry(record, formatted_message)
AddEntry ==
    /\ capture.added < MaxAdds
    /\ capture' = [capture EXCEPT
          !.added = @ + 1,
          !.entries = DequeAppend(@, capture.added + 1, capture.max_entries),
          !.calls = Notify(capture.listeners, @, capture.added + 1)]

\* list(self.entries)[-count:]
LastOfList(entries, count) ==
    SubSeq(entries, IF count >= Len(entries) THEN 1 ELSE Len(entries) - count + 1,
           Len(entries))

\* get_recent_entries(count)
RecentEntries(entries, count) ==
    IF count = None THEN entries
    ELSE IF count.v > 0 THEN LastOfList(entries, count.v) ELSE <<>>

GetRecentEntries(count) ==
    capture' = [capture EXCEPT
        !.got = [made |-> TRUE, count |-> count, held |-> capture.entries,
                 ret |-> RecentEntries(capture.entries, count)]]

InList(l, ls) == \E i \in 1..Len(ls) : ls[i] = l

\* add_listener(callback); again: a callback already registered was given
AddListener(l) ==
    capture' = [capture EXCEPT
        !.listeners = IF InList(l, @) THEN @ ELSE Append(@, l),
        !.again = @ \/ InList(l, capture.listeners)]

\* list.remove(x): the first x leaves the list
RECURSIVE ListRemove(_, _)
ListRemove(ls, l) ==
    IF ls = <<>> THEN <<>>
    ELSE IF Head(ls) = l THEN Tail(ls)
    ELSE <<Head(ls)>> \o ListRemove(Tail(ls), l)

\* remove_listener(callback)
RemoveListener(l) ==
    capture' = [capture EXCEPT
        !.listeners = IF InList(l, @) THEN ListRemove(@, l) ELSE @]

---------------------------------------------------------------------------
(* AstrometrySolver.solve called again and again on one image path        *)

\* the most calls in a run
MaxSolves == 3

\* xy: the number of the call whose Phase 1 wrote <base>.xy, 0 while there
\* is no such file; last: the latest call, input being the call that wrote
\* the .xy file its Phase 2 was run on
NoWorkdir ==
    [xy |-> 0, calls |-> 0,
     last |-> [made |-> FALSE, call |-> 0, p1 |-> "", wrote |-> FALSE, phases |-> 0,
               input |-> 0, res |-> EmptyResult]]

WorkdirQuiet == workdir = NoWorkdir

\* one more solve(image_path) with the environment e, where e.xy says
\* whether this call's Phase 1 wrote the .xy file (--keep-xylist with
\* --overwrite) before it ended, and removes whether a run that did not
\* write it removed the file it found; solve itself removes nothing
\* between calls: it does not call _cleanup_temp_files
SolveOnPath(e, removes) ==
    /\ workdir.calls < MaxSolves
    /\ LET call == workdir.calls + 1
           after1 == IF ~e.image THEN workdir.xy
                     ELSE IF e.xy THEN call
                     ELSE IF removes /\ e.p1.kind # "exception" THEN 0
                     ELSE workdir.xy
           ret == AstrometrySolve([e EXCEPT !.xy = after1 # 0])
       IN  workdir' = [xy |-> after1, calls |-> call,
                       last |-> [made |-> TRUE, call |-> call, p1 |-> e.p1.kind,
                                 wrote |-> e.image /\ e.xy, phases |-> ret.phases,
                                 input |-> IF ret.phases = 2 THEN after1 ELSE 0,
                                 res |-> ret.res]]

---------------------------------------------------------------------------
(* The handlers of LX200Server against a sequence of publishes            *)

\* the most publishes in a run
MaxPublishes == 2

\* the result of the k-th solve: k hours of right ascension, k degrees
FeedResult(k) == SolveResult(Num(k * 15 * UnitsPerDeg), Num(k * UnitsPerDeg), None, None, Dash)

\* begun, stored, done: the publishes that took the lock, assigned _last,
\* returned; res: the argument of the latest one begun; per connection,
\* start: done when its command was handed to _handle_command, calm: no
\* publish was under way then and none has begun since, read: stored at
\* its latest read of _last, seen: the read behind its previous
\* coordinate reply
NoWatch ==
    [begun |-> 0, stored |-> 0, done |-> 0, res |-> EmptyResult,
     start |-> [c \in Conns |-> 0], calm |-> [c \in Conns |-> FALSE],
     read |-> [c \in Conns |-> 0], seen |-> [c \in Conns |-> 0]]

WatchQuiet == watch = NoWatch

WatchedRecv(c, cmd) ==
    /\ HandlerRecv(c, cmd)
    /\ watch' = [watch EXCEPT !.start[c] = watch.done,
                              !.calm[c] = watch.begun = watch.done,
                              !.read[c] = watch.stored]

WatchedRead(c) ==
    /\ ReadTruth(c) \/ ReadGetattr(c) \/ ReadUse(c)
    /\ watch' = [watch EXCEPT !.read[c] = watch.stored]

WatchedSend(c) ==
    /\ HandlerSend(c)
    /\ watch' = [watch EXCEPT !.start[c] = 0, !.calm[c] = FALSE, !.read[c] = 0,
                              !.seen[c] = IF IsCoordQuery(h[c].cmd) THEN watch.read[c]
                                          ELSE @]

WatchedAcquire(r) ==
    /\ watch.begun < MaxPublishes
    /\ PublishAcquire(r)
    /\ watch' = [watch EXCEPT !.begun = @ + 1, !.res = r,
                              !.calm = [c \in Conns |-> FALSE]]

WatchedStore ==
    /\ PublishStore
    /\ watch' = [watch EXCEPT !.stored = @ + 1]

WatchedRelease ==
    /\ PublishRelease
    /\ watch' = [watch EXCEPT !.done = @ + 1]

---------------------------------------------------------------------------
(* One connection of LX200Server from recv to sendall, publish() alongside *)

\* what the peer sends: two queries, a motion command, and the beginning
\* of a command
LineTokens == {<<":","G","R","#">>, <<":","G","D","#">>, <<":","M","S","#">>, <<":","G">>}

LineStreams == {Flatten(ts) : ts \in UNION {[1..k -> LineTokens] : k \in 1..MaxCmds}}

\* a connection just accepted whose peer will send these bytes: pending are the
\* commands cut from buf and not yet handled, handled the ones given to
\* _handle_command, sent the responses given to sendall, failed whether
\* a sendall raised
NewLine(sent_by_peer) ==
    [stream |-> sent_by_peer, pos |-> 0, buf |-> <<>>, pending |-> <<>>, handled |-> <<>>,
     sent |-> <<>>, failed |-> FALSE, open |-> TRUE, cause |-> ""]

LineQuiet == link = NewLine(<<>>)

\* the connection's thread is connection 1's handler
LineConn == 1

\* conn.recv returns the next n bytes: they are decoded and appended to
\* buf, and the inner loop cuts the complete commands
LineRecv(n) ==
    /\ link.open /\ h[LineConn].pc = "idle" /\ link.pending = <<>>
    /\ n \in 1..(Len(link.stream) - link.pos)
    /\ LET chunk == SubSeq(link.stream, link.pos + 1, link.pos + n)
           got == ParseCommands(link.buf \o Decode(chunk))
       IN  link' = [link EXCEPT !.pos = @ + n, !.buf = got.rest,
                                !.pending = [i \in 1..Len(got.cmds) |-> got.cmds[i].cmd]]
    /\ UNCHANGED <<h, _last, lockHolder, pub>>

\* the inner loop calls _handle_command with the next command
LineHandle ==
    /\ link.open /\ link.pending # <<>>
    /\ HandlerRecv(LineConn, Head(link.pending))
    /\ link' = [link EXCEPT !.pending = Tail(@), !.handled = Append(@, Head(link.pending))]

\* _handle_command reads self._last
LineRead ==
    /\ ReadTruth(LineConn) \/ ReadGetattr(LineConn) \/ ReadUse(LineConn)
    /\ UNCHANGED link

\* _handle_command formats and calls _send_and_log, whose sendall works
\* (ok) or raises and is logged; an exception of the formatting leaves the
\* loops of _client_loop, and "finally" closes the connection
LineSend(ok) ==
    /\ HandlerSend(LineConn)
    /\ link' = IF h'[LineConn].pc = "crashed"
               THEN [link EXCEPT !.open = FALSE, !.cause = "error", !.pending = <<>>]
               ELSE [link EXCEPT !.sent = Append(@, HandlerReply(h[LineConn])),
                                 !.failed = @ \/ ~ok]

\* recv returns b"": the peer has sent everything and closed
LineEof ==
    /\ link.open /\ h[LineConn].pc = "idle" /\ link.pending = <<>>
    /\ link.pos = Len(link.stream)
    /\ link' = [link EXCEPT !.open = FALSE, !.cause = "eof"]
    /\ UNCHANGED <<h, _last, lockHolder, pub>>

SideQuiet ==
    /\ SettingsQuiet /\ AcceptQuiet /\ CaptureQuiet /\ WorkdirQuiet /\ WatchQuiet
    /\ LineQuiet

\* POST /settings: reload_if_changed, the merge of the body, settings.json
\* rewritten from settings_dump(); _last_mtime is not updated, so the file
\* is newer unless it is written within the tick of the last reload
PostSettings(data, same_tick) ==
    webSettings' = [webSettings EXCEPT
        !.mem = MergeSettings(ReloadTree(webSettings), data),
        !.file = SettingsDump(MergeSettings(ReloadTree(webSettings), data)),
        !.newer = ~same_tick,
        !.post = [made |-> TRUE, before |-> ReloadTree(webSettings), data |-> data,
                  after |-> MergeSettings(ReloadTree(webSettings), data)]]

\* settings.json rewritten by hand with a document that has only some keys
EditSettingsFile(data) ==
    webSettings' = [webSettings EXCEPT !.file = data, !.newer = TRUE]

\* GET /settings: reload_if_changed, then settings.model_dump(); got.data
\* is the document that was merged
GetSettings ==
    webSettings' = [webSettings EXCEPT
        !.mem = ReloadTree(webSettings), !.newer = FALSE,
        !.got = [made |-> TRUE, before |-> webSettings.mem,
                 data |-> IF webSettings.newer THEN webSettings.file
                          ELSE [solver |-> [bogus |-> Leaf(7)]],
                 after |-> ReloadTree(webSettings)]]

---------------------------------------------------------------------------
(* Specifications                                                          *)

ServerQuiet ==
    /\ lockHolder = Free
    /\ pub = [pc |-> "idle", res |-> EmptyResult]
    /\ h = [c \in Conns |-> IdleHandler]

ConnQuiet ==
    /\ stream = <<>> /\ pos = 0 /\ buf = <<>> /\ parsed = <<>> /\ replies = <<>>
    /\ wall = WallQuiet /\ exch = NoExchange /\ conn = OpenConn

OrchQuiet ==
    /\ settings = [mode |-> "test", solver_type |-> "astrometry", onstep_enabled |-> FALSE]
    /\ last_ra = None /\ last_dec = None /\ conf_val = Unbound /\ cyc = NoCycle
    /\ cacheTime = 0 /\ last_error = "" /\ onstep = FALSE /\ running = TRUE

\* what the steps of each component leave alone
serverFrame ==
    <<connVars, orchVars, webVars, cfgVars, solverVars, statusVars, sideVars, fmtVars, mountVars, now>>
connFrame ==
    <<lockHolder, pub, h, orchVars, webVars, cfgVars, solverVars, statusVars, sideVars, fmtVars, mountVars, now>>
dispatchFrame ==
    <<lockHolder, pub, h, stream, pos, buf, parsed, replies, conn, orchVars, webVars, cfgVars, solverVars, statusVars, sideVars,
      fmtVars, mountVars, now>>
orchFrame ==
    <<lockHolder, pub, h, connVars, webVars, cfgVars, solverVars, statusVars, sideVars, fmtVars, mountVars>>
webFrame ==
    <<serverVars, connVars, settings, last_ra, last_dec, conf_val, cyc, cacheTime,
      last_error, onstep, running, fmtVars, mountVars,
      cfgVars, solverVars, statusVars, sideVars>>

formatFrame ==
    <<serverVars, connVars, orchVars, webVars, cfgVars, solverVars, statusVars, sideVars, mountVars, now>>

\* the two formatters applied to one coordinate
FormatStart ==
    /\ FmtInit /\ ServerInit /\ ConnQuiet /\ OrchQuiet /\ status = StatusAbsent
    /\ WebInit /\ MountQuiet /\ CfgQuiet /\ SolverQuiet /\ StatusQuiet /\ SideQuiet /\ now = 0

FormatNext ==
    \/ FormatRaCall /\ UNCHANGED formatFrame
    \/ FormatDecCall /\ UNCHANGED formatFrame

SpecFormat == FormatStart /\ [][FormatNext]_vars

mountFrame ==
    <<serverVars, connVars, orchVars, webVars, cfgVars, solverVars, statusVars, sideVars, fmtVars, now>>

\* the mount client called by some caller
MountStart ==
    /\ MountQuiet /\ ServerInit /\ ConnQuiet /\ OrchQuiet /\ status = StatusAbsent
    /\ WebInit /\ FmtQuiet /\ CfgQuiet /\ SolverQuiet /\ StatusQuiet /\ SideQuiet /\ now = 0

MountNext ==
    \/ \E res \in MountResults, ok \in SendOutcomes :
          CallSyncPointing(res, ok) /\ UNCHANGED mountFrame
    \/ \E res \in MountResults, ok \in SendOutcomes :
          CallSlewThenSync(res, ok) /\ UNCHANGED mountFrame

SpecMount == MountStart /\ [][MountNext]_vars

configFrame ==
    <<serverVars, connVars, orchVars, webVars, fmtVars, mountVars, solverVars, statusVars, sideVars, now>>

\* the web process and the worker sharing settings.json
ConfigStart ==
    /\ CfgInit /\ ServerInit /\ ConnQuiet /\ OrchQuiet /\ status = StatusAbsent
    /\ WebInit /\ FmtQuiet /\ MountQuiet /\ SolverQuiet /\ StatusQuiet /\ SideQuiet /\ now = 0

ConfigNext ==
    \/ \E mode \in RequestedModes : SetMode(mode) /\ UNCHANGED configFrame
    \/ GetStatus /\ UNCHANGED configFrame
    \/ WorkerReload /\ UNCHANGED configFrame
    \/ FsTick /\ UNCHANGED configFrame

SpecConfig == ConfigStart /\ [][ConfigNext]_vars

solverFrame ==
    <<serverVars, connVars, orchVars, webVars, fmtVars, mountVars, cfgVars,
      statusVars, sideVars, now>>

\* one call of the solver adapter
SolverStart ==
    /\ SolverQuiet /\ ServerInit /\ ConnQuiet /\ OrchQuiet /\ status = StatusAbsent
    /\ WebInit /\ FmtQuiet /\ MountQuiet /\ CfgQuiet /\ StatusQuiet /\ SideQuiet /\ now = 0

SolverNext ==
    \/ \E c \in SolveCalls : CallSolve(c) /\ UNCHANGED solverFrame
    \/ \E ra_deg, dec_deg \in CoordValues, solved_exists \in BOOLEAN :
          CallIsSolveSuccessful(ra_deg, dec_deg, solved_exists) /\ UNCHANGED solverFrame

SpecSolver == SolverStart /\ [][SolverNext]_vars

\* the parse loop over every output of at most MaxLines lines
ParseLoopStart == SolverStart

ParseLoopNext == \E line \in OutputLines : ReadLine(line) /\ UNCHANGED solverFrame

SpecParse == ParseLoopStart /\ [][ParseLoopNext]_vars

statusFrame ==
    <<serverVars, connVars, orchVars, webVars, fmtVars, mountVars, cfgVars,
      solverVars, sideVars>>

\* the status file, its two writers and its reader
StatusStart == SolverStart

StatusNext ==
    \/ \E w \in Writers : \E a \in StatusWrites(w) :
          BeginWrite(w, a) /\ UNCHANGED <<now, statusFrame>>
    \/ \E w \in Writers : OpenWrite(w) /\ UNCHANGED <<now, statusFrame>>
    \/ \E w \in Writers : CloseWrite(w) /\ UNCHANGED <<now, statusFrame>>
    \/ GetWorkerStatus /\ UNCHANGED <<now, statusFrame>>
    \/ Tick /\ UNCHANGED <<statusVars, statusFrame>>

SpecStatus == StatusStart /\ [][StatusNext]_vars

\* the LX200 server: handler threads against the publishing thread
ServerStart ==
    /\ ServerInit /\ ConnQuiet /\ OrchQuiet /\ status = StatusAbsent /\ WebInit
    /\ FmtQuiet /\ MountQuiet /\ CfgQuiet /\ SolverQuiet /\ StatusQuiet /\ SideQuiet /\ now = 0

ServerNext ==
    \/ \E c \in Conns, cmd \in ServerCommands :
          HandlerRecv(c, cmd) /\ UNCHANGED serverFrame
    \/ \E c \in Conns : ReadTruth(c) /\ UNCHANGED serverFrame
    \/ \E c \in Conns : ReadGetattr(c) /\ UNCHANGED serverFrame
    \/ \E c \in Conns : ReadUse(c) /\ UNCHANGED serverFrame
    \/ \E c \in Conns : HandlerSend(c) /\ UNCHANGED serverFrame
    \/ \E r \in PublishedResults : PublishAcquire(r) /\ UNCHANGED serverFrame
    \/ PublishStore /\ UNCHANGED serverFrame
    \/ PublishRelease /\ UNCHANGED serverFrame

SpecServer == ServerStart /\ [][ServerNext]_vars

\* one connection of the LX200 server fed a byte stream in chunks
ConnStart ==
    /\ ConnInit /\ ServerQuiet /\ OrchQuiet /\ status = StatusAbsent /\ WebInit
    /\ FmtQuiet /\ MountQuiet /\ CfgQuiet /\ SolverQuiet /\ StatusQuiet /\ SideQuiet /\ now = 0
    /\ _last \in {NoLast, SomeLast(EmptyResult), SomeLast(ExampleResult)}

ConnNext ==
    \/ \E n \in 1..Len(stream) : ConnRecv(n) /\ UNCHANGED connFrame
    \/ ConnTimeout /\ UNCHANGED connFrame
    \/ ConnEof /\ UNCHANGED connFrame
    \/ ConnError /\ UNCHANGED connFrame

SpecConn == ConnStart /\ [][ConnNext]_vars

\* the dispatch of single commands against publish() and the clock
DispatchStart ==
    /\ ServerInit /\ ConnQuiet /\ OrchQuiet /\ status = StatusAbsent /\ WebInit
    /\ FmtQuiet /\ MountQuiet /\ CfgQuiet /\ SolverQuiet /\ StatusQuiet /\ SideQuiet /\ now = 0

DispatchNext ==
    \/ \E raw \in RawCommands : Serve(raw) /\ UNCHANGED dispatchFrame
    \/ \E r \in PublishedResults : Publish(r) /\ UNCHANGED dispatchFrame
    \/ \E w \in WallClocks : ClockMoves(w) /\ UNCHANGED dispatchFrame

SpecDispatch == DispatchStart /\ [][DispatchNext]_vars

\* the orchestrator loop, with time passing between its iterations
\* the loop with the clock, no mount configured and a healthy file system
OrchSettings == {s \in SettingsValues : ~s.onstep_enabled}

OrchStart ==
    /\ OrchInit /\ ~onstep /\ ServerInit /\ ConnQuiet /\ WebInit /\ FmtQuiet
    /\ MountQuiet /\ CfgQuiet /\ SolverQuiet /\ StatusQuiet /\ SideQuiet /\ now = 0

AllTrue == [i \in 1..4 |-> TRUE]

OrchNext ==
    \/ \E s \in OrchSettings : CycleTest(s, "none") /\ UNCHANGED <<now, orchFrame>>
    \/ \E s \in OrchSettings, cap \in CaptureOutcomes :
          CycleAlign(s, cap, "none", AllTrue) /\ UNCHANGED <<now, orchFrame>>
    \/ \E s \in OrchSettings, cap \in CaptureOutcomes,
          ret \in AstrometryReturns \cup {Tetra3Solve(TRUE), Tetra3Solve(FALSE)} :
          CycleSolve(s, cap, ret, "none", AllTrue) /\ UNCHANGED <<now, orchFrame>>
    \/ Tick /\ UNCHANGED <<orchVars, _last, orchFrame>>

SpecOrch == OrchStart /\ [][OrchNext]_vars

\* the loop with a mount that may be configured and files that may fail;
\* the clock plays no part
LoopSettings == {s \in SettingsValues : s.mode # "demo" /\ s.solver_type = "astrometry"}
LoopCaptures == {"pi_ok", "fail"}
LoopReturns ==
    {r \in AstrometryReturns : r.raised \/ r.res.confidence \in {Num(30), Num(90)}}

LoopStart ==
    /\ OrchInit /\ settings \in LoopSettings /\ ServerInit /\ ConnQuiet /\ WebInit
    /\ FmtQuiet /\ MountQuiet /\ CfgQuiet /\ SolverQuiet /\ StatusQuiet /\ SideQuiet /\ now = 0

LoopNext ==
    \/ CycleReloadFails /\ UNCHANGED <<now, orchFrame>>
    \/ \E s \in LoopSettings, f \in Faults : CycleTest(s, f) /\ UNCHANGED <<now, orchFrame>>
    \/ \E s \in LoopSettings, cap \in LoopCaptures, f \in Faults, ok \in PushOutcomes :
          CycleAlign(s, cap, f, ok) /\ UNCHANGED <<now, orchFrame>>
    \/ \E s \in LoopSettings, cap \in LoopCaptures, f \in Faults, ok \in PushOutcomes,
          ret \in LoopReturns :
          CycleSolve(s, cap, ret, f, ok) /\ UNCHANGED <<now, orchFrame>>

SpecLoop == LoopStart /\ [][LoopNext]_vars

\* the scheduler runs the process: an iteration that can start does start
SpecLoopFair == SpecLoop /\ WF_vars(LoopNext)

\* the web process serving POST /solve, with time passing between requests
WebStart ==
    /\ WebInit /\ ServerInit /\ ConnQuiet /\ OrchQuiet /\ status = StatusAbsent
    /\ FmtQuiet /\ MountQuiet /\ CfgQuiet /\ SolverQuiet /\ StatusQuiet /\ SideQuiet /\ now = 0

WebNext ==
    \/ \E ret \in WebSolveReturns : WebSolve(ret) /\ UNCHANGED <<now, webFrame>>
    \/ Tick /\ UNCHANGED <<webVars, status, webFrame>>

SpecWeb == WebStart /\ [][WebNext]_vars

---------------------------------------------------------------------------
(* Claims about the LX200 server under concurrency (SpecServer)            *)

\* the replies for a query when there are no coordinates to report
ZeroRaReply == <<"0","0",":","0","0",":","0","0","#">>
ZeroDecReply == <<"+","0","0","*","0","0",":","0","0","#">>

\* the replies that format a coordinate of one result publish() is given,
\* or the zero default
WholeReplies(cmd) ==
    {CoordReply(cmd, Coord(cmd, r)) : r \in {x \in PublishedResults : Coord(cmd, x) # None}}
        \cup {CoordReply(cmd, Num(0))}

\* C1: with handlers serving :GR#/:GD# while publish() runs in another
\* thread, in every interleaving no handler raises and loses its connection,
\* the lock is only ever held by the publishing thread (which therefore never
\* waits for it), and every reply is the whole formatting of a coordinate of
\* one published result or of the zero default.
C1_NoCrashNoTornReply ==
    /\ lockHolder \in {Free, PubThread}
    /\ \A c \in Conns :
          /\ h[c].pc # "crashed"
          /\ (h[c].pc = "send" /\ IsCoordQuery(h[c].cmd)) =>
                /\ ~FormatRaises(h[c].val)
                /\ HandlerReply(h[c]) \in WholeReplies(h[c].cmd)

\* C2: every read of _last a handler makes is made while it holds the
\* server's lock, so that the result its null-check saw is the result whose
\* coordinate it then uses.
C2_ReadsUnderLock ==
    \A c \in Conns :
        /\ h[c].locked
        /\ (h[c].pc = "send" /\ h[c].use.set) => h[c].use = h[c].chk

\* C7: a :GR#/:RS# or :GD# query for which the server has no coordinates
\* (nothing published so far, or the result the handler's null-check saw has
\* a null coordinate) is answered with exactly 00:00:00# or +00*00:00#, and
\* no reply to such a query is a bare #.
C7_ZeroDefaultReply ==
    \A c \in Conns :
        (h[c].pc = "send" /\ IsCoordQuery(h[c].cmd)) =>
            /\ ~FormatRaises(h[c].val) => HandlerReply(h[c]) # <<"#">>
            /\ (~_last.set \/ ~h[c].chk.set \/ Coord(h[c].cmd, h[c].chk.r) = None) =>
                  /\ ~FormatRaises(h[c].val)
                  /\ HandlerReply(h[c]) =
                        IF IsRaQuery(h[c].cmd) THEN ZeroRaReply ELSE ZeroDecReply

\* C7's case: a handler is about to answer :GR# with the zero default after
\* its null-check saw a published result without coordinates
C7_Witness ==
    \E c \in Conns :
        /\ h[c].pc = "send"
        /\ h[c].cmd = <<":","G","R","#">>
        /\ h[c].chk = SomeLast(EmptyResult)
        /\ HandlerReply(h[c]) = ZeroRaReply

\* the five motion commands
MotionCommands ==
    { <<":","M","S","#">>, <<":","M","n","#">>, <<":","M","e","#">>,
      <<":","M","s","#">>, <<":","M","w","#">> }

\* C8: every motion command is answered with exactly 0, and no step of any
\* connection handler changes _last: it changes only in publish().
C8_MotionAnswersZeroAndOnlyPublishStores ==
    /\ [](\A c \in Conns :
            (h[c].pc = "send" /\ h[c].cmd \in MotionCommands) =>
                HandlerReply(h[c]) = <<"0">>)
    /\ [][_last' # _last =>
            /\ pub.pc = "locked" /\ pub'.pc = "stored"
            /\ _last' = SomeLast(pub.res)
            /\ h' = h]_vars

\* C8's case: a handler is about to answer a motion command while a result
\* with coordinates is published
C8_Witness ==
    \E c \in Conns :
        /\ h[c].pc = "send"
        /\ h[c].cmd = <<":","M","w","#">>
        /\ _last = SomeLast(ExampleResult)

---------------------------------------------------------------------------
(* Claims about the orchestrator's cycle (SpecOrch)                        *)

\* C3: the cache (last_ra, last_dec) is written by a cycle only if the
\* cycle ran the solver, the solver did not raise, it returned non-null
\* coordinates and a numeric confidence above 0.5.
C3_CacheOnlyOnConfidentSolve ==
    cyc.cacheWrite =>
        /\ cyc.branch = "solve"
        /\ ~cyc.raised
        /\ cyc.res.ra_deg # None /\ cyc.res.dec_deg # None
        /\ cyc.res.confidence.t = "num"
        /\ cyc.res.confidence.v > ConfThreshold

\* C4: every cycle that takes the solve branch calls publish exactly once,
\* with that cycle's result, also when the solver raised.
C4_SolveCyclePublishesOnce ==
    cyc.branch = "solve" => cyc.pubs = <<cyc.res>>

\* C5: a cycle hands the cached pair to the solver as a hint only if the
\* pair is present and was cached no longer than hint_timeout ago.
C5_HintOnlyWhileFresh ==
    (cyc.branch = "solve" /\ cyc.hinted) =>
        cyc.hintAge <= HintTimeout

---------------------------------------------------------------------------
(* Claims about POST /solve (SpecWeb)                                      *)

\* C6: POST /solve passes a hint to the solver exactly when LAST_SOLVE holds
\* an RA, a Dec and a timestamp and the time since that timestamp is at most
\* hint_timeout (the boundary included); the hint is the stored pair, and
\* otherwise the solver gets no hint.
C6_WebHintIffFresh ==
    webCall.made =>
        LET st == webCall.stored
            present == st.ra # None /\ st.dec # None /\ st.timestamp # None
        IN  /\ webCall.hinted <=>
                  (present /\ webCall.at - st.timestamp.v <= HintTimeout)
            /\ webCall.hinted =>
                  webCall.ra_hint = st.ra /\ webCall.dec_hint = st.dec
            /\ ~webCall.hinted =>
                  webCall.ra_hint = None /\ webCall.dec_hint = None

\* C6's case: a call made exactly hint_timeout after the stored solve, which
\* passed the stored pair as its hint
C6_Witness ==
    /\ webCall.made
    /\ webCall.stored.timestamp # None
    /\ webCall.at - webCall.stored.timestamp.v = HintTimeout
    /\ webCall.hinted
    /\ webCall.ra_hint = webCall.stored.ra

---------------------------------------------------------------------------
(* Claims about command dispatch (SpecDispatch)                            *)

\* the rows of the dispatch table, in order
DispatchTable ==
    << [prefixes |-> {<<":","G","R","#">>, <<":","R","S","#">>},
        anycase |-> TRUE, kind |-> "ra"],
       [prefixes |-> {<<":","G","D","#">>}, anycase |-> TRUE, kind |-> "dec"],
       [prefixes |-> {<<":","G","V","P","#">>}, anycase |-> FALSE, kind |-> "product"],
       [prefixes |-> {<<":","G","V","N","#">>}, anycase |-> FALSE, kind |-> "version"],
       [prefixes |-> {<<":","G","V","D","#">>, <<":","G","C","#">>},
        anycase |-> FALSE, kind |-> "date"],
       [prefixes |-> {<<":","G","V","T","#">>, <<":","G","L","#">>},
        anycase |-> FALSE, kind |-> "time"],
       [prefixes |-> {<<":","U","#">>}, anycase |-> FALSE, kind |-> "one"],
       [prefixes |-> {<<":","S","C">>, <<":","S","L">>, <<":","S","t">>, <<":","S","g">>},
        anycase |-> FALSE, kind |-> "one"],
       [prefixes |-> MotionCommands, anycase |-> FALSE, kind |-> "zero"] >>

RowMatches(row, cmd) ==
    \E p \in row.prefixes :
        StartsWith(IF row.anycase THEN Upper(cmd) ELSE cmd, p)

\* the kind of reply of the first row that matches, "hash" when none does
TableKind(cmd) ==
    LET hits == {i \in 1..Len(DispatchTable) : RowMatches(DispatchTable[i], cmd)}
    IN  IF hits = {} THEN "hash"
        ELSE DispatchTable[CHOOSE i \in hits : \A j \in hits : i <= j].kind

\* the reply of each kind, given the result and the clock the handler saw
TableReply(kind, l, w) ==
    CASE kind = "ra" ->
            (IF l.set /\ l.r.ra_deg # None THEN FormatRa(l.r.ra_deg.v)
             ELSE <<"0","0",":","0","0",":","0","0">>) \o <<"#">>
      [] kind = "dec" ->
            (IF l.set /\ l.r.dec_deg # None THEN FormatDec(l.r.dec_deg.v)
             ELSE <<"+","0","0","*","0","0",":","0","0">>) \o <<"#">>
      [] kind = "product" ->
            <<"S","k","y","s","o","l","v","e"," ","N","e","x","t","#">>
      [] kind = "version" -> <<"0",".","1","#">>
      [] kind = "date" -> StrfDate(w) \o <<"#">>
      [] kind = "time" -> StrfTime(w) \o <<"#">>
      [] kind = "one" -> <<"1">>
      [] kind = "zero" -> <<"0">>
      [] OTHER -> <<"#">>

\* C9: a command handed to _handle_command has no surrounding whitespace
\* and starts with ':' (one is prefixed when missing), and its reply is that
\* of the first row of the dispatch table whose prefix it starts with, '#'
\* when no row matches.
C9_DispatchTable ==
    exch.raw # <<>> =>
        /\ exch.cmd # <<>>
        /\ exch.cmd[1] = ":"
        /\ exch.cmd[Len(exch.cmd)] = "#"
        /\ exch.cmd \in {Strip(exch.raw), <<":">> \o Strip(exch.raw)}
        /\ exch.reply = TableReply(TableKind(exch.cmd), exch.last, exch.wall)

\* C9's case: a lower-case gd# sent after a line break and without its
\* colon, answered with the declination of the published result
C9_Witness ==
    /\ exch.raw = <<"\n","g","d","#">>
    /\ exch.cmd = <<":","g","d","#">>
    /\ exch.last = SomeLast(ExampleResult)
    /\ exch.reply = <<"+","4","2","*","4","4",":","1","1","#">>

---------------------------------------------------------------------------
(* Claims about command framing (SpecConn)                                 *)

\* C10: once the whole byte stream has been received, however recv cut it
\* into chunks, the commands parsed are those obtained by cutting the whole
\* decoded stream after each '#', and the text after the last '#' is what
\* the buffer retains.
C10_FramingIgnoresChunking ==
    pos = Len(stream) =>
        /\ parsed = ParseCommands(Decode(stream)).cmds
        /\ buf = ParseCommands(Decode(stream)).rest

---------------------------------------------------------------------------
(* Claims about the life of a connection (SpecConn)                        *)

\* C11, as stated: the connection is closed only after recv returned zero
\* bytes.
C11_ClosedOnlyOnEof == ~conn.open => conn.last = "eof"

\* C11, amended: the connection is closed only after recv returned zero
\* bytes or raised an error that is not a read timeout; a read timeout
\* leaves the connection open and leaves the buffer, and everything parsed
\* and sent so far, as they were.
C11_TimeoutNeverCloses ==
    /\ [](~conn.open => conn.last \in {"eof", "error"})
    /\ [][conn'.last = "timeout" =>
            /\ conn'.open
            /\ buf' = buf /\ pos' = pos
            /\ parsed' = parsed /\ replies' = replies]_vars

\* C11's case: a read timed out while an unfinished command sat in the
\* buffer, and the connection is still open
C11_Witness ==
    /\ conn.last = "timeout"
    /\ conn.open
    /\ buf = <<":","G">>

---------------------------------------------------------------------------
(* Claims about the coordinate formatters (SpecFormat)                     *)

\* the part of the value below its leading field, and the part the two
\* lower fields denote, both in 1/FloatOne of a second (of time for a right
\* ascension, of arc for a declination)
BelowTop == IF angle.kind = "ra" THEN (fmt.x - fmt.top * 15 * FloatOne) * 240
            ELSE (fmt.x - fmt.top * FloatOne) * 3600
Denoted == (fmt.m * 60 + fmt.s) * FloatOne

\* C12: the two formatters return the same text; the minutes and seconds
\* are in 00..59 and the hours of a right ascension in 00..23; the text
\* denotes a magnitude that is not above the magnitude of the value and is
\* less than one second below it; a declination carries the sign of the
\* value; and 296.964, 42.7365 give 19:47:51 and +42*44:11.
C12_FormattersTruncate ==
    fmt.done =>
        /\ fmt.text = fmt.onstep
        /\ fmt.m \in 0..59 /\ fmt.s \in 0..59
        /\ angle.kind = "ra" => fmt.top \in 0..23
        /\ angle.kind = "dec" => fmt.text[1] = (IF angle.u < 0 THEN "-" ELSE "+")
        /\ Denoted <= BelowTop
        /\ BelowTop - Denoted < FloatOne
        /\ angle = [kind |-> "ra", u |-> 2969640] =>
              fmt.text = <<"1","9",":","4","7",":","5","1">>
        /\ angle = [kind |-> "dec", u |-> 427365] =>
              fmt.text = <<"+","4","2","*","4","4",":","1","1">>

---------------------------------------------------------------------------
(* Claims about the mount client (SpecMount)                               *)

\* s is an initial part of t
IsPrefix(s, t) == Len(s) <= Len(t) /\ \A i \in 1..Len(s) : s[i] = t[i]

\* the commands of a method for the coordinates of the latest call
MethodCommands ==
    LET ra == IF mount.res.ra_deg = None THEN <<>>
              ELSE <<":","S","r">> \o FormatRa(mount.res.ra_deg.v) \o <<"#">>
        dec == IF mount.res.dec_deg = None THEN <<>>
               ELSE <<":","S","d">> \o FormatDec(mount.res.dec_deg.v) \o <<"#">>
    IN  IF mount.method = "sync_pointing" THEN <<ra, dec, <<":","C","M","#">>>>
        ELSE <<ra, dec, <<":","M","S","#">>, <<":","C","M","#">>>>

\* C19: what a call of sync_pointing sent is an initial part of set-RA,
\* set-Dec, :CM#, and what a call of slew_then_sync sent an initial part of
\* set-RA, set-Dec, :MS#, :CM#; the call sent all of it exactly when nothing
\* failed, so :CM# is sent only after every command before it.
C19_CommandsInOrderUpToFirstFailure ==
    mount.calls > 0 =>
        /\ IsPrefix(mount.sent, MethodCommands)
        /\ mount.err = "" <=> mount.sent = MethodCommands
        /\ \A i \in 1..Len(mount.sent) :
              mount.sent[i] = <<":","C","M","#">> => i = Len(MethodCommands)

\* a slew_then_sync whose :CM# failed after :MS# went out
C19_Witness ==
    /\ mount.method = "slew_then_sync"
    /\ mount.err = "OSError"
    /\ Len(mount.sent) = 3
    /\ mount.sent[3] = <<":","M","S","#">>

---------------------------------------------------------------------------
(* Claims about the loop with a mount and failing files (SpecLoop)         *)

\* C13: an align iteration captures a frame and calls no solver; what it
\* publishes is the result whose five fields are None, and it publishes it
\* unless write_status raised; last_ra and last_dec keep the values the
\* earlier iterations left.
C13_AlignPublishesEmptyKeepsCache ==
    [][cyc'.branch = "align" =>
          /\ cyc'.captured
          /\ cyc'.solverCalls = 0
          /\ cyc'.pubs \in {<<>>, <<EmptyResult>>}
          /\ cyc'.exc = "" => cyc'.pubs = <<EmptyResult>> /\ _last' = SomeLast(EmptyResult)
          /\ last_ra' = last_ra /\ last_dec' = last_dec /\ cacheTime' = cacheTime]_vars

\* an align iteration after a confident solve filled the cache
C13_Witness ==
    /\ cyc.branch = "align"
    /\ cyc.pubs = <<EmptyResult>>
    /\ last_ra = Num(2969640) /\ last_dec = Num(427365)
    /\ conf_val = Num(90)

\* C14: a test iteration captures nothing, calls no solver, publishes
\* nothing and calls no client method; last_ra, last_dec and the server's
\* _last stay as they were; the status record keeps its timestamp, ra, dec
\* and confidence, and unless write_status raised it exists with mode "test"
\* and the iteration ends in its own sleep.
C14_TestCycleOnlyWritesStatus ==
    [][cyc'.branch = "test" =>
          /\ ~cyc'.captured
          /\ cyc'.solverCalls = 0
          /\ cyc'.pubs = <<>>
          /\ cyc'.push = NoPush
          /\ last_ra' = last_ra /\ last_dec' = last_dec /\ cacheTime' = cacheTime
          /\ _last' = _last
          /\ status'.timestamp = status.timestamp
          /\ status'.ra = status.ra /\ status'.dec = status.dec
          /\ status'.confidence = status.confidence
          /\ cyc'.exc = "" =>
                /\ cyc'.wrote /\ status'.exists /\ status'.mode = "test"
                /\ cyc'.sleep = "test"]_vars

\* a test iteration after a solve wrote coordinates to the status record
C14_Witness ==
    /\ cyc.branch = "test"
    /\ cyc.wrote
    /\ status.mode = "test"
    /\ status.ra = Num(2969640) /\ status.confidence = Num(90)
    /\ _last.set /\ _last.r.ra_deg = Num(2969640)

\* C15: main never leaves its loop; an iteration in which an exception
\* reached the loop's except clause ends in the backoff sleep and in no
\* other; and iterations go on for ever, so after a failing iteration a
\* further one begins.
C15_LoopImmortal ==
    /\ [](running)
    /\ [](cyc.exc # "" <=> cyc.sleep = "backoff")
    /\ []<><<LoopNext>>_vars

\* an iteration that read conf_val before its first assignment, with the
\* loop still running
C15_Witness == cyc.exc = "UnboundLocalError" /\ cyc.sleep = "backoff" /\ running

C18_PushesOncePerCycleIffEnabled ==
    (cyc.branch \in {"align", "solve"} /\ cyc.exc = "") =>
        IF settings.onstep_enabled
        THEN cyc.push.method \in {"sync_pointing", "slew_then_sync"}
        ELSE cyc.push = NoPush

---------------------------------------------------------------------------
(* Claims about the persisted configuration (SpecConfig)                   *)

\* C17: once a pass of the worker's loop has begun after the latest write
\* of settings.json, the branch it ran is the branch of the mode in the
\* file.
C17_CycleAfterWriteRunsNewMode ==
    workerCfg.fresh => workerCfg.ran = cfgFile.mode

---------------------------------------------------------------------------
(* Claims about the solver adapter (SpecSolver)                            *)

\* C20: a call whose image_path is not a string naming a file raises, has
\* started no solve-field process and returns no result; a call whose
\* image_path names a file does not raise.
C20_BadImageRaisesBeforeAnyProcess ==
    solveCall.done =>
        /\ ~solveCall.image => solveCall.raised /\ solveCall.phases = 0
        /\ solveCall.image => ~solveCall.raised /\ solveCall.phases >= 1

\* a call with a bad image_path in an environment where solve-field would
\* have solved the frame
C20_Witness ==
    /\ solveCall.done /\ ~solveCall.image /\ solveCall.raised
    /\ solveCall.p1 = "ok" /\ solveCall.solved


---------------------------------------------------------------------------
(* C24: a phase is classified as successful if and only if the marker file
   <base>.solved exists and the parsed RA and Dec are both non-null and both
   non-zero; ra = 0.0 and dec = 0.0 fail even with the marker file present.
   Stated of a call of _is_solve_successful on its own and of the test solve
   makes after Phase 1, which shows in the message it logs. *)
HasMsg(text) == \E i \in 1..Len(solveCall.msgs) : solveCall.msgs[i].msg = text

C24_SuccessIffMarkerAndNonZeroCoords ==
    /\ classify.done =>
          (classify.ok <=>
              /\ classify.solved_exists
              /\ classify.ra_deg # None /\ classify.dec_deg # None
              /\ classify.ra_deg # Num(0) /\ classify.dec_deg # Num(0))
    /\ solveCall.done /\ solveCall.image =>
          (HasMsg("Phase 1 succeeded") <=>
              /\ solveCall.solved
              /\ solveCall.r1.ra_deg # Num(0) /\ solveCall.r1.dec_deg # Num(0))

C24_Witness ==
    /\ classify.done /\ classify.solved_exists /\ ~classify.ok
    /\ classify.ra_deg = Num(0) /\ classify.dec_deg = Num(0)

---------------------------------------------------------------------------
(* C25: the parsed coordinates are those of the last output line matching
   either coordinate pattern, after an optional [HH:MM:SS] prefix is removed;
   a "Field center" line after an "RA,Dec =" line overrides it, and lines
   matching neither pattern leave the values unchanged (0.0, 0.0 when no line
   matched). *)
CoordLines(lines) ==
    {i \in 1..Len(lines) : lines[i].kind \in {"radec", "center"}}

LastOf(S) == CHOOSE i \in S : \A k \in S : k <= i

---------------------------------------------------------------------------
(* the success test solve applies to the result of Phase 1 *)
Phase1Passed ==
    /\ solveCall.solved
    /\ solveCall.r1.ra_deg # Num(0) /\ solveCall.r1.dec_deg # Num(0)

(* C21: for a valid image path solve never raises because of the external
   process: a non-zero exit code, a timeout, malformed output (exit code 0
   with no parsable coordinates) or an exception while running the process
   gives a returned result with confidence 0 and no usable coordinates.
   Stated of the first run of solve-field, whose result solve returns when
   no second run is made. *)
Phase1ProcessFailed ==
    solveCall.p1 # "ok" \/ CoordLines(solveCall.out1) = {}

C21_ProcessFailureGivesZeroConfidence ==
    solveCall.done /\ solveCall.image =>
        /\ ~solveCall.raised
        /\ Phase1ProcessFailed =>
              /\ solveCall.r1.confidence = Num(0)
              /\ solveCall.r1.ra_deg = Num(0) /\ solveCall.r1.dec_deg = Num(0)
              /\ solveCall.phases = 1 => solveCall.res = solveCall.r1

---------------------------------------------------------------------------
(* C22 as stated: Phase 2 is executed if and only if Phase 1 failed the
   success test and the .xy file exists; if Phase 1 failed and the file is
   absent there is no second invocation and the result is Phase 1's. *)
C22_Phase2IffFailedAndXy ==
    solveCall.done /\ solveCall.image =>
        /\ solveCall.phases = 2 <=> (~Phase1Passed /\ solveCall.xy)
        /\ ~Phase1Passed /\ ~solveCall.xy =>
              solveCall.phases = 1 /\ solveCall.res = solveCall.r1

(* C22 amended: Phase 2 is executed if and only if enable_fallback is true
   (its default), Phase 1 failed the success test and the .xy file exists; if
   Phase 1 failed and the file is absent or enable_fallback is false, there
   is no second invocation and the result is exactly Phase 1's result. *)
C22_Phase2IffEnabledFailedAndXy ==
    solveCall.done /\ solveCall.image =>
        /\ solveCall.phases = 2 <=>
              (solveCall.fallback /\ ~Phase1Passed /\ solveCall.xy)
        /\ ~Phase1Passed /\ (~solveCall.xy \/ ~solveCall.fallback) =>
              solveCall.phases = 1 /\ solveCall.res = solveCall.r1

C22_Witness ==
    /\ solveCall.done /\ solveCall.image /\ solveCall.fallback
    /\ solveCall.p1 = "ok" /\ solveCall.solved /\ ~Phase1Passed
    /\ ~solveCall.xy /\ solveCall.phases = 1 /\ solveCall.res = solveCall.r1

---------------------------------------------------------------------------
(* C23: one solve call runs the external solver at most twice; when Phase 1
   passes the success test there is no second run and Phase 1's result is
   returned; a Phase 2 run is made on the .xy file and never carries --ra,
   --dec or --radius, whatever hints solve was given, and its result is
   returned whether or not it passes the success test. *)
C23_AtMostTwoRunsSecondUnhinted ==
    solveCall.done =>
        /\ Len(solveCall.cmds) <= 2
        /\ solveCall.image /\ Phase1Passed =>
              Len(solveCall.cmds) = 1 /\ solveCall.res = solveCall.r1
        /\ Len(solveCall.cmds) = 2 =>
              /\ solveCall.cmds[2].input = "xy"
              /\ solveCall.cmds[2].flags \cap HintFlags = {}
              /\ solveCall.res = solveCall.r2

C23_Witness ==
    /\ solveCall.done /\ Len(solveCall.cmds) = 2
    /\ solveCall.ra_hint # None /\ solveCall.dec_hint # None
    /\ HintFlags \subseteq solveCall.cmds[1].flags
    /\ solveCall.cmds[2].flags = {}
    /\ solveCall.p2 = "timeout" /\ solveCall.res = ZeroResult

---------------------------------------------------------------------------
(* C26: when solve is given a log sink, every message it emits - each phase
   start, the command line of each run, every stdout and stderr line of the
   process, each phase result or failure - is appended to the sink in
   emission order and is also sent to the component logger; none reaches one
   of the two without the other. *)
CountMsgs(text) ==
    Cardinality({i \in 1..Len(solveCall.msgs) : solveCall.msgs[i].msg = text})

C26_SinkAndLoggerGetEveryMessage ==
    solveCall.done /\ solveCall.log =>
        /\ Len(solveCall.logs.sink) = Len(solveCall.msgs)
        /\ solveCall.logs.logger = solveCall.msgs
        /\ \A i \in 1..Len(solveCall.msgs) :
              /\ solveCall.logs.sink[i].msg = solveCall.msgs[i].msg
              /\ solveCall.logs.sink[i].n = solveCall.msgs[i].n
              /\ solveCall.logs.sink[i].level = solveCall.msgs[i].level
        /\ CountMsgs("command") = solveCall.phases
        /\ solveCall.image /\ solveCall.p1 \in {"ok", "nonzero"} =>
              CountMsgs("stdout") >= Len(solveCall.out1)
        /\ solveCall.image =>
              CountMsgs("Phase 1: Solving image with hints")
                  + CountMsgs("Phase 1: Solving image without hints") = 1

C26_Witness ==
    /\ solveCall.done /\ solveCall.log /\ solveCall.phases = 2
    /\ solveCall.p1 = "ok" /\ Len(solveCall.out1) = 2
    /\ solveCall.p2 = "nonzero"
    /\ Len(solveCall.logs.sink) = 12 /\ Len(solveCall.logs.logger) = 12


---------------------------------------------------------------------------
(* C27: POST /solve answers result = "error" when the external solver
   process exits with a non-zero return code, and result = "success" only
   when the solve produced coordinates.  The process that counts is the run
   of solve-field whose result solve returned. *)
C27_NonZeroExitAnswersError ==
    webCall.made =>
        /\ (webCall.phases = 1 /\ webCall.p1 = "nonzero") => webCall.result = "error"
        /\ (webCall.phases = 2 /\ webCall.p2 = "nonzero") => webCall.result = "error"
        /\ webCall.result = "success" =>
              /\ webCall.ra # None /\ webCall.dec # None
              /\ webCall.ra # Num(0) /\ webCall.dec # Num(0)


---------------------------------------------------------------------------
(* C28: write_status overwrites the record's timestamp, RA, Dec and
   confidence only when mode is "solve" and both coordinates of the result
   are non-null; in every other case the previous timestamp, RA, Dec and
   confidence are kept and only mode and error are refreshed.  Stated of the
   record each caller has built from what it read, which is what it then
   writes. *)
C28_OverwriteOnlyForSolveWithCoords ==
    \A w \in Writers :
        writer[w].pc # "idle" =>
            /\ writer[w].rec.mode = writer[w].mode
            /\ writer[w].rec.error = writer[w].error
            /\ IF writer[w].mode = "solve" /\ writer[w].ra # None /\ writer[w].dec # None
                   THEN /\ writer[w].rec.timestamp = Num(writer[w].at)
                        /\ writer[w].rec.ra = writer[w].ra
                        /\ writer[w].rec.dec = writer[w].dec
                        /\ writer[w].rec.confidence \in {writer[w].confidence, Dash}
               ELSE /\ writer[w].rec.timestamp = writer[w].prev.timestamp
                    /\ writer[w].rec.ra = writer[w].prev.ra
                    /\ writer[w].rec.dec = writer[w].prev.dec
                    /\ writer[w].rec.confidence = writer[w].prev.confidence

C28_Witness ==
    /\ writer["worker"].pc = "opened" /\ writer["worker"].mode = "test"
    /\ writer["worker"].at = 2
    /\ writer["worker"].prev.ra = Num(2969640)
    /\ writer["worker"].prev.timestamp = Num(1)
    /\ writer["worker"].rec.ra = Num(2969640)
    /\ writer["worker"].rec.timestamp = Num(1)

---------------------------------------------------------------------------
(* C29: a reader of the status file - GET /worker-status, or write_status
   reading the previous record - always obtains a complete, well-formed
   record, at any moment and under concurrent writes by the worker and by
   POST /solve; a partially written, empty or corrupt record is never
   observed.  Stated of the reads made once a first write has ended. *)
C29_ReaderSeesCompleteRecord ==
    reader.made /\ reader.after => reader.complete


---------------------------------------------------------------------------
(* C30: POST /mode sets and persists the mode if and only if the requested
   mode is one of solve, align, test: for a valid mode it answers success
   and every later GET /status returns that mode until the next change; for
   any other value (unknown string, empty string, null or missing) it
   answers HTTP 400 and leaves the in-memory and the persisted mode as the
   request found them. *)
C30_ModeSetIffValid ==
    /\ webCfg.resp.endpoint = "mode" =>
          /\ webCfg.resp.code = 200 <=> webCfg.resp.asked \in {"solve", "align", "test"}
          /\ webCfg.resp.code = 200 =>
                /\ webCfg.resp.mode = webCfg.resp.asked
                /\ webCfg.mode = webCfg.resp.asked
                /\ cfgFile.mode = webCfg.resp.asked
          /\ webCfg.resp.code # 200 =>
                /\ webCfg.resp.code = 400
                /\ webCfg.mode = webCfg.resp.memory
                /\ cfgFile.mode = webCfg.resp.file
    /\ webCfg.resp.endpoint = "status" =>
          /\ webCfg.resp.mode = cfgFile.mode
          /\ webCfg.resp.mode = webCfg.mode
    /\ cfgFile.mode \in {"solve", "align", "test"}

C30_Witness ==
    /\ webCfg.resp.endpoint = "mode" /\ webCfg.resp.code = 400
    /\ webCfg.resp.asked = MissingMode
    /\ webCfg.last_mtime = 1 /\ fsClock = 2
    /\ cfgFile.mode = "align" /\ webCfg.mode = "align"


---------------------------------------------------------------------------
(* C31: a partial configuration update (POST /settings, or a reload of a
   file that holds only some keys) changes exactly the known fields it
   names; sibling fields of the same nested section and all other sections
   keep their values, unknown keys are ignored, and a later GET /settings
   returns the updated values.  A tree or a document is compared by its
   fields: <<section, key, sub-key, value>>, the sub-key "" for a scalar. *)
FlatVal(sec, k, val) ==
    IF val.dict THEN {<<sec, k, p[1], p[2]>> : p \in val.d}
    ELSE {<<sec, k, "", val.v>>}

FlatTree(tree) ==
    UNION {UNION {FlatVal(sec, k, tree[sec][k]) : k \in DOMAIN tree[sec]} :
               sec \in DOMAIN tree}

KnownFields == {<<p[1], p[2], p[3]>> : p \in FlatTree(DefaultSettings)}

NamedFields(data) ==
    {p \in FlatTree(data) : <<p[1], p[2], p[3]>> \in KnownFields}

ExpectedTree(before, data) ==
    {q \in FlatTree(before) :
        \A p \in NamedFields(data) : <<p[1], p[2], p[3]>> # <<q[1], q[2], q[3]>>}
    \cup NamedFields(data)

C31_PartialUpdateChangesOnlyNamedFields ==
    /\ webSettings.post.made =>
          FlatTree(webSettings.post.after)
              = ExpectedTree(webSettings.post.before, webSettings.post.data)
    /\ webSettings.got.made =>
          FlatTree(webSettings.got.after)
              = ExpectedTree(webSettings.got.before, webSettings.got.data)

---------------------------------------------------------------------------
settingsFrame ==
    <<serverVars, connVars, orchVars, webVars, fmtVars, mountVars, cfgVars,
      solverVars, statusVars, acceptor, capture, workdir, watch, link, now>>

\* the web process's settings under POST /settings, GET /settings and edits
\* of settings.json
SettingsStart == SolverStart

SettingsNext ==
    \/ \E data \in SettingsPayloads, same_tick \in BOOLEAN :
          PostSettings(data, same_tick) /\ UNCHANGED settingsFrame
    \/ \E data \in SettingsPayloads : EditSettingsFile(data) /\ UNCHANGED settingsFrame
    \/ GetSettings /\ UNCHANGED settingsFrame

SpecSettings == SettingsStart /\ [][SettingsNext]_vars

---------------------------------------------------------------------------
(* C32: an exception raised by accept() never ends the accept loop: it is
   logged and accept is called again after the backoff; a connection's
   thread that ends, by an exception or by the peer closing, closes only
   its own connection: the accept loop, every other connection's thread and
   the latest published result are as they were. *)
C32_FailuresStayLocal ==
    [][ /\ acceptor'.pc \in {"accept", "backoff"}
        /\ (acceptor.pc = "accept" /\ acceptor'.logged # acceptor.logged) =>
              /\ acceptor'.pc = "backoff"
              /\ acceptor'.logged = acceptor.logged + 1
              /\ acceptor'.threads = acceptor.threads
              /\ _last' = _last
        /\ acceptor.pc = "backoff" => acceptor'.pc \in {"accept", "backoff"}
        /\ \A c \in Conns :
              (acceptor.threads[c].state = "serving"
                  /\ acceptor'.threads[c].state = "closed") =>
                 /\ \A d \in Conns \ {c} : acceptor'.threads[d] = acceptor.threads[d]
                 /\ acceptor'.pc = acceptor.pc
                 /\ acceptor'.logged = acceptor.logged
                 /\ _last' = _last
      ]_vars

\* accept failed and was retried, one connection ended on an exception,
\* and a connection accepted after both is being served
C32_Witness ==
    /\ acceptor.pc = "accept"
    /\ acceptor.logged > 0
    /\ \E c, d \in Conns :
          /\ acceptor.threads[c].state = "closed"
          /\ acceptor.threads[c].cause = "error"
          /\ acceptor.threads[d].state = "serving"
          /\ acceptor.threads[d].served > 0
    /\ _last.set

---------------------------------------------------------------------------
acceptFrame ==
    <<lockHolder, pub, h, stream, pos, buf, parsed, replies, conn, orchVars,
      webVars, cfgVars, solverVars, statusVars, fmtVars, mountVars, webSettings,
      capture, workdir, watch, link, now>>

\* the accept loop, the connection threads and publish()
AcceptStart == DispatchStart

AcceptNext ==
    \/ AcceptReturns /\ UNCHANGED acceptFrame
    \/ AcceptRaises /\ UNCHANGED acceptFrame
    \/ AcceptBackoffEnds /\ UNCHANGED acceptFrame
    \/ \E c \in Conns, raw \in AcceptCommands : ThreadServes(c, raw) /\ UNCHANGED acceptFrame
    \/ \E c \in Conns, cause \in {"eof", "error"} : ThreadEnds(c, cause) /\ UNCHANGED acceptFrame
    \/ \E r \in PublishedResults : Publish(r) /\ UNCHANGED <<acceptor, acceptFrame>>

SpecAccept == AcceptStart /\ [][AcceptNext]_vars

---------------------------------------------------------------------------
(* C33: after any sequence of add_entry calls a LogCapture holds at most
   max_entries entries, and they are the most recently added ones in the
   order of their adding (the oldest goes first); get_recent_entries(count),
   for a count of zero or more, returns the last min(count, size) entries
   and never more than count. *)
MinOf(a, b) == IF a <= b THEN a ELSE b

NewestEntries(added, k) == [i \in 1..k |-> added - k + i]

C33_HoldsNewestAndReturnsLastCount ==
    /\ Len(capture.entries) <= capture.max_entries
    /\ capture.entries
          = NewestEntries(capture.added, MinOf(capture.added, capture.max_entries))
    /\ (capture.got.made /\ capture.got.count # None /\ capture.got.count.v >= 0) =>
          LET size == Len(capture.got.held)
              k == MinOf(capture.got.count.v, size)
          IN  /\ Len(capture.got.ret) = k
              /\ Len(capture.got.ret) <= capture.got.count.v
              /\ capture.got.ret = SubSeq(capture.got.held, size - k + 1, size)

\* more entries were added than the capture holds, and fewer were asked
\* for than it holds
C33_Witness ==
    /\ capture.added > capture.max_entries
    /\ capture.max_entries > 1
    /\ capture.got.made /\ capture.got.count = Num(1)
    /\ Len(capture.got.held) = capture.max_entries
    /\ capture.got.ret = <<capture.added>>

---------------------------------------------------------------------------
(* C34: a listener is called exactly once for each entry added while it
   is registered and never for an entry added after remove_listener
   returned; registering a callback twice does not make it receive an
   entry twice; a listener that raises prevents neither the storing of
   the entry nor the calls of the other listeners. *)
C34_ListenersCalledOncePerEntry ==
    [][ /\ \A i, j \in 1..Len(capture'.listeners) :
              capture'.listeners[i] = capture'.listeners[j] => i = j
        /\ capture'.added # capture.added =>
              /\ \A l \in Listeners :
                    capture'.calls[l]
                        = IF InList(l, capture.listeners)
                          THEN Append(capture.calls[l], capture'.added)
                          ELSE capture.calls[l]
              /\ capture.max_entries > 0 =>
                    capture'.entries[Len(capture'.entries)] = capture'.added
        /\ capture'.added = capture.added => capture'.calls = capture.calls
      ]_vars

\* the raising listener was called before the other one for the first
\* entry, a callback was registered twice, and after the raising listener
\* was removed a second entry went to the other one only
C34_Witness ==
    /\ capture.again
    /\ capture.calls["bad"] = <<1>>
    /\ capture.calls["a"] = <<1, 2>>
    /\ capture.listeners = <<"a">>
    /\ capture.added = 2

---------------------------------------------------------------------------
captureFrame ==
    <<serverVars, connVars, orchVars, webVars, fmtVars, mountVars, cfgVars,
      solverVars, statusVars, webSettings, acceptor, workdir, watch, link, now>>

CaptureCounts == {None} \cup {Num(n) : n \in (-1)..(MaxEntries + 1)}

\* a capture of any size under add_entry and get_recent_entries
CaptureStart ==
    /\ \E n \in 0..MaxEntries : capture = NewCapture(n)
    /\ ServerInit /\ ConnQuiet /\ OrchQuiet /\ status = StatusAbsent /\ WebInit
    /\ FmtQuiet /\ MountQuiet /\ CfgQuiet /\ SolverQuiet /\ StatusQuiet
    /\ SettingsQuiet /\ AcceptQuiet /\ WorkdirQuiet /\ WatchQuiet /\ LineQuiet /\ now = 0

CaptureNext ==
    \/ AddEntry /\ UNCHANGED captureFrame
    \/ \E count \in CaptureCounts : GetRecentEntries(count) /\ UNCHANGED captureFrame

SpecCapture == CaptureStart /\ [][CaptureNext]_vars

\* a capture, its listeners coming and going, under add_entry
ListenersNext ==
    \/ AddEntry /\ UNCHANGED captureFrame
    \/ \E l \in Listeners : AddListener(l) /\ UNCHANGED captureFrame
    \/ \E l \in Listeners : RemoveListener(l) /\ UNCHANGED captureFrame

SpecListeners == CaptureStart /\ [][ListenersNext]_vars

---------------------------------------------------------------------------
(* C35: Phase 2 of a solve call only ever reads a .xy file that Phase 1 of
   the same call wrote: over a sequence of calls on one image path, the
   file an earlier call left behind is never the input of a later call's
   Phase 2. *)
C35_Phase2ReadsOwnXy ==
    (workdir.last.made /\ workdir.last.phases = 2) =>
        /\ workdir.last.wrote
        /\ workdir.last.input = workdir.last.call

---------------------------------------------------------------------------
workdirFrame ==
    <<serverVars, connVars, orchVars, webVars, fmtVars, mountVars, cfgVars,
      solverVars, statusVars, webSettings, acceptor, capture, watch, link, now>>

\* solve calls one after the other on the same image path
WorkdirStart == SolverStart

WorkdirNext ==
    \E e \in SolverEnvs, removes \in BOOLEAN :
        SolveOnPath(e, removes) /\ UNCHANGED workdirFrame

SpecWorkdir == WorkdirStart /\ [][WorkdirNext]_vars

---------------------------------------------------------------------------
(* C36: POST /solve records a result's coordinates and time in LAST_SOLVE
   only when the solve succeeded with confidence above 0.5: the zero
   coordinates of a failed solve are never stored, and so are never handed
   to a later solve as its hint.  The confidence of the call is the one
   write_status has just put into the status. *)
C36_LastSolveOnlyFromConfidentSolve ==
    [][ /\ LAST_SOLVE' # LAST_SOLVE =>
              /\ status'.confidence.t = "num"
              /\ status'.confidence.v > ConfThreshold
        /\ LAST_SOLVE'.ra # Num(0)
        /\ LAST_SOLVE'.dec # Num(0)
        /\ webCall'.ra_hint # Num(0)
        /\ webCall'.dec_hint # Num(0)
      ]_vars

---------------------------------------------------------------------------
(* C37: a solve-mode cycle whose solver raised leaves the cache last_ra,
   last_dec exactly as it was: a populated cache is never cleared or
   overwritten by such a cycle, whatever confidence earlier cycles had. *)
C37_RaisingSolveKeepsCache ==
    [][ (cyc'.branch = "solve" /\ cyc'.raised) =>
            /\ last_ra' = last_ra
            /\ last_dec' = last_dec
      ]_vars

---------------------------------------------------------------------------
(* C38: over any sequence of cycles the status file's RA, Dec and
   timestamp are those of the most recent successful solve: a solve cycle
   whose solve failed, returning the result of zero coordinates and zero
   confidence, leaves the three of them as they were. *)
C38_FailedSolveKeepsStatusFix ==
    [][ (cyc'.branch = "solve" /\ ~cyc'.raised /\ cyc'.res = ZeroResult) =>
            /\ status'.ra = status.ra
            /\ status'.dec = status.dec
            /\ status'.timestamp = status.timestamp
      ]_vars

---------------------------------------------------------------------------
(* C39: once publish(r) has returned for a result r with coordinates, and
   until the next publish begins, every :GR#, :RS# and :GD# command handled
   on any connection is answered with the formatting of r's RA or Dec; a
   reply never shows a result older than the latest publish that had
   returned when the command was taken up, and the results one connection
   sees never go backwards in the order of the publishes.  A handler at
   "send" has made its reads and is about to format and send. *)
C39_RepliesShowLatestPublish ==
    \A c \in Conns :
        (h[c].pc = "send" /\ IsCoordQuery(h[c].cmd)) =>
            /\ (watch.calm[c] /\ watch.done > 0 /\ watch.res # EmptyResult) =>
                   HandlerReply(h[c]) = CoordReply(h[c].cmd, Coord(h[c].cmd, watch.res))
            /\ watch.read[c] >= watch.start[c]
            /\ watch.read[c] >= watch.seen[c]

\* a second publish has returned, and a handler that answered from the
\* first one is about to answer from the second
C39_Witness ==
    \E c \in Conns :
        /\ h[c].pc = "send" /\ IsCoordQuery(h[c].cmd)
        /\ watch.done = 2 /\ watch.start[c] = 2 /\ watch.calm[c]
        /\ watch.seen[c] = 1
        /\ watch.res = FeedResult(2)
        /\ h[c].val # Num(0)

---------------------------------------------------------------------------
feedFrame ==
    <<connVars, orchVars, webVars, cfgVars, solverVars, statusVars, fmtVars,
      mountVars, webSettings, acceptor, capture, workdir, link, now>>

FeedCommands == {<<":","G","R","#">>, <<":","G","D","#">>}

\* the connections that send commands: two clients polling side by side
FeedConns == {1, 2}

\* handlers serving coordinate queries while the worker publishes one
\* result after the other, some of them without coordinates
FeedStart == ServerStart

FeedNext ==
    \/ \E c \in FeedConns, cmd \in FeedCommands : WatchedRecv(c, cmd) /\ UNCHANGED feedFrame
    \/ \E c \in FeedConns : WatchedRead(c) /\ UNCHANGED feedFrame
    \/ \E c \in FeedConns : WatchedSend(c) /\ UNCHANGED feedFrame
    \/ \E r \in {FeedResult(watch.begun + 1), EmptyResult} :
          WatchedAcquire(r) /\ UNCHANGED feedFrame
    \/ WatchedStore /\ UNCHANGED feedFrame
    \/ WatchedRelease /\ UNCHANGED feedFrame

SpecFeed == FeedStart /\ [][FeedNext]_vars

---------------------------------------------------------------------------
(* C40: on a connection the server sends exactly one response for every
   complete "#"-terminated command, in the order of the commands in the
   received stream; bytes not yet ended by "#" get no response; a send that
   fails does not keep the following commands from being processed.  The
   commands of the bytes received so far are the ones handled and pending,
   every command whose handling is over has its response, and the i-th
   response is a reply to the i-th command. *)
RepliesTo(cmd) ==
    IF IsCoordQuery(cmd)
    THEN {CoordReply(cmd, Num(0)), CoordReply(cmd, Coord(cmd, ExampleResult))}
    ELSE {StaticReply(cmd, WallQuiet)}

C40_OneResponsePerCommandInOrder ==
    LET cut == ParseCommands(Decode(SubSeq(link.stream, 1, link.pos)))
        busy == h[LineConn].pc \in {"truth", "getattr", "use", "send"}
    IN  /\ [i \in 1..Len(cut.cmds) |-> cut.cmds[i].cmd] = link.handled \o link.pending
        /\ link.buf = cut.rest
        /\ Len(link.sent) = Len(link.handled) - (IF busy THEN 1 ELSE 0)
        /\ \A i \in 1..Len(link.sent) : link.sent[i] \in RepliesTo(link.handled[i])
        /\ ~link.open => link.cause = "eof"

---------------------------------------------------------------------------
lineFrame ==
    <<connVars, orchVars, webVars, cfgVars, solverVars, statusVars, fmtVars,
      mountVars, webSettings, acceptor, capture, workdir, watch, now>>

\* a connection fed a byte stream in chunks while the worker publishes
LineStart ==
    /\ \E s \in LineStreams : link = NewLine(s)
    /\ ServerInit /\ ConnQuiet /\ OrchQuiet /\ status = StatusAbsent /\ WebInit
    /\ FmtQuiet /\ MountQuiet /\ CfgQuiet /\ SolverQuiet /\ StatusQuiet
    /\ SettingsQuiet /\ AcceptQuiet /\ CaptureQuiet /\ WorkdirQuiet /\ WatchQuiet
    /\ now = 0

LineNext ==
    \/ \E n \in 1..Len(link.stream) : LineRecv(n) /\ UNCHANGED lineFrame
    \/ LineHandle /\ UNCHANGED lineFrame
    \/ LineRead /\ UNCHANGED lineFrame
    \/ \E ok \in BOOLEAN : LineSend(ok) /\ UNCHANGED lineFrame
    \/ LineEof /\ UNCHANGED lineFrame
    \/ \E r \in PublishedResults : PublishAcquire(r) /\ UNCHANGED <<link, lineFrame>>
    \/ PublishStore /\ UNCHANGED <<link, lineFrame>>
    \/ PublishRelease /\ UNCHANGED <<link, lineFrame>>

SpecLine == LineStart /\ [][LineNext]_vars

===========================================================================
